---- MODULE Spec2Model ----
(***************************************************************************)
(* Threat scoring of the Aegis One mail extension: the inbox threat scan   *)
(* of background.js (remote classification with local fallback), the local *)
(* thread analyzer, the link deception analyzer of content.js and the      *)
(* response parser of prompt-templates.js.                                 *)
(*                                                                         *)
(* JavaScript strings are sequences of one-character strings, so that      *)
(* substring tests, regular expressions and the edit distance are          *)
(* computed the way the code computes them.                                *)
(***************************************************************************)
EXTENDS Integers, Sequences, FiniteSets, TLC

(***************************************************************************)
(* String primitives                                                       *)
(***************************************************************************)
UpperChars == <<"A","B","C","D","E","F","G","H","I","J","K","L","M",
                "N","O","P","Q","R","S","T","U","V","W","X","Y","Z">>
LowerChars == <<"a","b","c","d","e","f","g","h","i","j","k","l","m",
                "n","o","p","q","r","s","t","u","v","w","x","y","z">>
Digits == {"0","1","2","3","4","5","6","7","8","9"}

Range(s) == {s[i] : i \in 1..Len(s)}

Max(a, b) == IF a >= b THEN a ELSE b
Min(a, b) == IF a <= b THEN a ELSE b

\* String.prototype.toLowerCase, one character
LowerChar(c) ==
  IF \E i \in 1..26 : UpperChars[i] = c
  THEN LowerChars[CHOOSE i \in 1..26 : UpperChars[i] = c]
  ELSE c

\* String.prototype.toLowerCase
toLowerCase(s) == <<>> \o [i \in 1..Len(s) |-> LowerChar(s[i])]

\* the character class [a-z0-9]
IsAlnum(c) == c \in Range(LowerChars) \cup Digits

\* the character class \s (the only white space of the modelled strings)
IsSpace(c) == c = " "

\* String.prototype.startsWith
startsWith(s, p) == Len(p) <= Len(s) /\ SubSeq(s, 1, Len(p)) = p

\* String.prototype.endsWith
endsWith(s, p) == Len(p) <= Len(s) /\ SubSeq(s, Len(s) - Len(p) + 1, Len(s)) = p

\* String.prototype.includes
includes(s, p) == \E i \in 1..(Len(s) - Len(p) + 1) : SubSeq(s, i, i + Len(p) - 1) = p

\* Array.prototype.includes on a sequence of tags
HasTag(tags, t) == \E i \in 1..Len(tags) : tags[i] = t

(***************************************************************************)
(* levenshtein (background.js)                                             *)
(***************************************************************************)
\* matrix[i] for i >= 1: the cells are appended for j = 1..a.length to
\* row = <<matrix[i][0], ..>>; prev is matrix[i-1] and bc is b.charAt(i-1)
RECURSIVE LevRow(_, _, _, _)
LevRow(prev, a, bc, row) ==
  IF Len(row) > Len(a) THEN row
  ELSE LET j == Len(row)
           cell == IF bc = a[j]
                   THEN prev[j]
                   ELSE Min(Min(prev[j] + 1, row[j] + 1), prev[j + 1] + 1)
       IN LevRow(prev, a, bc, Append(row, cell))

\* the matrix, one row per step: matrix holds matrix[0..i-1], row i is next
RECURSIVE LevRows(_, _, _)
LevRows(matrix, a, b) ==
  IF Len(matrix) > Len(b) THEN matrix
  ELSE LET i == Len(matrix)
       IN LevRows(Append(matrix, LevRow(matrix[i], a, b[i], <<i>>)), a, b)

\* levenshtein without the two calls of toLowerCase
levenshteinCaseSensitive(a0, b0) ==
  IF a0 = <<>> \/ b0 = <<>>
  THEN (IF a0 # <<>> \/ b0 # <<>> THEN Max(Len(a0), Len(b0)) ELSE 0)
  ELSE LET matrix == LevRows(<< [j \in 1..(Len(a0) + 1) |-> j - 1] >>, a0, b0)
       IN matrix[Len(b0) + 1][Len(a0) + 1]

levenshtein(a0, b0) ==
  IF a0 = <<>> \/ b0 = <<>>
  THEN (IF a0 # <<>> \/ b0 # <<>> THEN Max(Len(a0), Len(b0)) ELSE 0)
  ELSE LET a == toLowerCase(a0)
           b == toLowerCase(b0)
           matrix == LevRows(<< [j \in 1..(Len(a) + 1) |-> j - 1] >>, a, b)
       IN matrix[Len(b) + 1][Len(a) + 1]

(***************************************************************************)
(* analyzeInboxLocally (background.js)                                     *)
(***************************************************************************)
\* knownBrands, each with the tag `similar-to-${brand}` built from it
knownBrands == <<
  [name |-> <<"m","i","c","r","o","s","o","f","t">>, tag |-> "similar-to-microsoft"],
  [name |-> <<"g","o","o","g","l","e">>, tag |-> "similar-to-google"],
  [name |-> <<"a","m","a","z","o","n">>, tag |-> "similar-to-amazon"],
  [name |-> <<"p","a","y","p","a","l">>, tag |-> "similar-to-paypal"],
  [name |-> <<"a","p","p","l","e">>, tag |-> "similar-to-apple"],
  [name |-> <<"f","a","c","e","b","o","o","k">>, tag |-> "similar-to-facebook"],
  [name |-> <<"b","a","n","k">>, tag |-> "similar-to-bank"],
  [name |-> <<"c","h","a","s","e">>, tag |-> "similar-to-chase"],
  [name |-> <<"b","a","n","k","o","f","a","m","e","r","i","c","a">>, tag |-> "similar-to-bankofamerica"],
  [name |-> <<"s","t","r","i","p","e">>, tag |-> "similar-to-stripe"],
  [name |-> <<"g","i","t","h","u","b">>, tag |-> "similar-to-github"] >>

suspiciousTLDs == <<
  <<".","t","k">>,
  <<".","r","u">>,
  <<".","m","l">>,
  <<".","g","a">>,
  <<".","c","f">>,
  <<".","b","i","z">>,
  <<".","i","n","f","o">> >>

\* sender.match(/@([^\s>]+)/): the capture group, "" when there is no match
RECURSIVE TakeDomain(_, _)
TakeDomain(s, i) ==
  IF i > Len(s) \/ IsSpace(s[i]) \/ s[i] = ">" THEN <<>>
  ELSE <<s[i]>> \o TakeDomain(s, i + 1)

SenderDomain(sender) ==
  LET cand == {i \in 1..Len(sender) :
                 /\ sender[i] = "@"
                 /\ i < Len(sender)
                 /\ ~IsSpace(sender[i + 1])
                 /\ sender[i + 1] # ">"}
  IN IF cand = {} THEN <<>>
     ELSE LET i == CHOOSE k \in cand : \A m \in cand : k <= m
          IN toLowerCase(TakeDomain(sender, i + 1))

\* s.split(/[^a-z0-9]+/).filter(Boolean): the maximal alphanumeric runs
RECURSIVE SplitTokens(_, _, _)
SplitTokens(s, i, cur) ==
  IF i > Len(s) THEN (IF cur = <<>> THEN <<>> ELSE <<cur>>)
  ELSE IF IsAlnum(s[i]) THEN SplitTokens(s, i + 1, Append(cur, s[i]))
  ELSE (IF cur = <<>> THEN <<>> ELSE <<cur>>) \o SplitTokens(s, i + 1, <<>>)

NoText == <<>>

\* Heuristic 1: the finding of the first suspicious TLD the domain ends with
TldFindings(i, t, domain) ==
  LET hits == SelectSeq(suspiciousTLDs, LAMBDA tld : endsWith(domain, tld))
  IN IF Len(hits) = 0 THEN <<>>
     ELSE << [index |-> i, sender |-> t.sender, subject |-> t.subject,
              reason |-> [what |-> "suspicious-tld", a |-> hits[1],
                          b |-> NoText, n |-> 0],
              indicators |-> <<"suspicious-tld">>] >>

\* TypoBound that allows two edits for every brand
TypoBoundTwo(name) == Max(2, Len(name) \div 5)

\* the distance bound of a brand: Math.max(1, Math.floor(brand.length * 0.2))
TypoBound(name) == Max(1, Len(name) \div 5)

\* IsTypo without the test dist > 0
IsTypoAllowExact(token, brand) ==
  /\ ~(Len(brand) < 4 \/ Len(token) < 4)
  /\ levenshtein(token, brand) <= TypoBound(brand)

\* the test of Heuristic 2 for one token and one brand
IsTypo(token, brand) ==
  /\ ~(Len(brand) < 4 \/ Len(token) < 4)
  /\ levenshtein(token, brand) > 0
  /\ levenshtein(token, brand) <= TypoBound(brand)

\* the concatenation of a sequence of sequences
RECURSIVE Flatten(_)
Flatten(lists) ==
  IF Len(lists) = 0 THEN <<>> ELSE Head(lists) \o Flatten(Tail(lists))

\* Heuristic 2, inner loop: the findings of one token, in the order of the brands
TokenFindings(i, t, token) ==
  LET hits == SelectSeq([k \in 1..Len(knownBrands) |-> k],
                        LAMBDA k : IsTypo(token, knownBrands[k].name))
  IN [h \in 1..Len(hits) |->
        [index |-> i, sender |-> t.sender, subject |-> t.subject,
         reason |-> [what |-> "typosquatting", a |-> token,
                     b |-> knownBrands[hits[h]].name,
                     n |-> levenshtein(token, knownBrands[hits[h]].name)],
         indicators |-> <<"typosquatting", knownBrands[hits[h]].tag>>]]

\* Heuristic 2, outer loop: the findings of the tokens, in their order
TypoFindings(i, t, tokens) ==
  Flatten([k \in 1..Len(tokens) |-> TokenFindings(i, t, tokens[k])])

\* the findings of thread i (the code's index i is 0-based)
ThreadFindings(i, t) ==
  LET sender == toLowerCase(t.sender)
      subject == toLowerCase(t.subject)
      domain == SenderDomain(sender)
      tokens == SplitTokens(sender \o <<" ">> \o subject, 1, <<>>)
  IN (IF domain # <<>> THEN TldFindings(i, t, domain) ELSE <<>>)
     \o TypoFindings(i, t, tokens)

\* the findings of the threads, in their order
InboxFindings(threads) ==
  Flatten([k \in 1..Len(threads) |-> ThreadFindings(k - 1, threads[k])])

\* InboxStrong that counts typosquatting only
InboxStrongTypoOnly(findings) ==
  \E k \in 1..Len(findings) : HasTag(findings[k].indicators, "typosquatting")

\* InboxStrong that counts a suspicious top-level domain only
InboxStrongTldOnly(findings) ==
  \E k \in 1..Len(findings) : HasTag(findings[k].indicators, "suspicious-tld")

\* findings.some(f => includes("suspicious-tld") || includes("typosquatting"))
InboxStrong(findings) ==
  \E k \in 1..Len(findings) :
     \/ HasTag(findings[k].indicators, "suspicious-tld")
     \/ HasTag(findings[k].indicators, "typosquatting")

\* a result object { level, detail, findings }: detail is a fixed message msg
\* with a count n, or a text; hasFindings is FALSE when the object has no
\* findings field, findingsIsArray is FALSE when the field is not an array,
\* hasConfidence is TRUE when the object has a confidence field
Verdict(level, msg, n, hasFindings, findings) ==
  [level |-> level, detail |-> [msg |-> msg, n |-> n, text |-> <<>>],
   hasFindings |-> hasFindings, findingsIsArray |-> hasFindings,
   findings |-> findings, hasConfidence |-> FALSE]

analyzeInboxLocally(threads) ==
  LET findings == InboxFindings(threads)
  IN IF Len(findings) = 0
     THEN Verdict("safe", "Checks out!", 0, TRUE, <<>>)
     ELSE IF InboxStrong(findings)
     THEN Verdict("danger", "suspicious item(s) detected", Len(findings), TRUE, findings)
     ELSE Verdict("warning", "potentially suspicious item(s) detected",
                  Len(findings), TRUE, findings)

(***************************************************************************)
(* filterThreadsByDateAndLimit (background.js)                             *)
(*                                                                         *)
(* A date is a day number; t.timestamp is the string of the time element   *)
(* (kind "none": null or empty, "invalid": not a date, "date": parses to   *)
(* day), t.rawTimestamp the data-timestamp attribute (kind "none", "nan",  *)
(* "num").                                                                 *)
(***************************************************************************)
Now == 10
MaxDays == 7
ThreadLimit == 50

\* the _date of a thread; ok = FALSE is an Invalid Date
ThreadDate(t) ==
  IF t.timestamp.kind = "date" THEN [ok |-> TRUE, day |-> t.timestamp.day]
  ELSE IF t.rawTimestamp.kind = "num" THEN [ok |-> TRUE, day |-> t.rawTimestamp.day]
  ELSE IF t.rawTimestamp.kind = "nan" THEN [ok |-> FALSE, day |-> 0]
  ELSE [ok |-> TRUE, day |-> 0]

\* t._date >= sevenDaysAgo (a comparison with an Invalid Date is false)
IsRecent(t) == ThreadDate(t).ok /\ ThreadDate(t).day >= Now - MaxDays

\* Array.prototype.filter
FilterRecent(threads) == SelectSeq(threads, IsRecent)

\* stable insertion of t into a list sorted by date, newest first
RECURSIVE InsertByDate(_, _)
InsertByDate(sorted, t) ==
  IF sorted = <<>> THEN <<t>>
  ELSE IF ThreadDate(Head(sorted)).day >= ThreadDate(t).day
  THEN <<Head(sorted)>> \o InsertByDate(Tail(sorted), t)
  ELSE <<t>> \o sorted

\* Array.prototype.sort((a,b) => b._date - a._date), which is stable
RECURSIVE SortByDateDesc(_, _, _)
SortByDateDesc(threads, k, acc) ==
  IF k > Len(threads) THEN acc
  ELSE SortByDateDesc(threads, k + 1, InsertByDate(acc, threads[k]))

\* filterThreadsByDateAndLimit without the slice
filterThreadsByDateNoLimit(threads) ==
  SortByDateDesc(FilterRecent(threads), 1, <<>>)

filterThreadsByDateAndLimit(threads) ==
  LET sorted == SortByDateDesc(FilterRecent(threads), 1, <<>>)
  IN SubSeq(sorted, 1, Min(Len(sorted), ThreadLimit))

(***************************************************************************)
(* analyzeUrlDeception and quickScanLinks (content.js)                     *)
(***************************************************************************)
shorteners == <<
  <<"b","i","t",".","l","y">>,
  <<"t","i","n","y","u","r","l",".","c","o","m">>,
  <<"g","o","o",".","g","l">>,
  <<"o","w",".","l","y">>,
  <<"t",".","c","o">>,
  <<"s","h","o","r","t",".","u","r","l">>,
  <<"i","s",".","g","d">>,
  <<"b","u","f","f",".","l","y">>,
  <<"t","i","n","y",".","o","n","e">> >>

knownBad == <<
  <<"m","a","l","w","a","r","e",".","e","x","a","m","p","l","e">>,
  <<"b","a","d","w","a","r","e",".","t","e","s","t">>,
  <<"p","h","i","s","h","i","n","g","s","i","t","e",".","t","e","s","t">> >>

\* the alternatives of /login-|secure-|verify-|account-|signin-/
authPatterns == <<
  <<"l","o","g","i","n","-">>,
  <<"s","e","c","u","r","e","-">>,
  <<"v","e","r","i","f","y","-">>,
  <<"a","c","c","o","u","n","t","-">>,
  <<"s","i","g","n","i","n","-">> >>

IsLetter(c) == LowerChar(c) \in Range(LowerChars)

\* the character class \w
IsWord(c) == IsLetter(c) \/ c \in Digits \/ c = "_"

\* index of the first character of s from i on that is in set, Len(s)+1 if none
RECURSIVE FirstIn(_, _, _)
FirstIn(s, i, set) ==
  IF i > Len(s) \/ s[i] \in set THEN i ELSE FirstIn(s, i + 1, set)

\* index of the last character of s that is c, 0 if none
LastIndexOf(s, c) ==
  LET hits == {i \in 1..Len(s) : s[i] = c}
  IN IF hits = {} THEN 0 ELSE CHOOSE i \in hits : \A k \in hits : k <= i

\* host code points the URL parser rejects
ForbiddenHost == {" ", "<", ">", "[", "]", "^", "|", "%", "\\"}

\* new URL(s).hostname.toLowerCase(): ok = FALSE when the constructor throws.
\* scheme ":" "//" [userinfo "@"] host [":" port] then "/", "?", "#" or the end;
\* a URL with a scheme and no "//" (javascript:, mailto:) has the hostname "".
URLHostname(s) ==
  LET colon == FirstIn(s, 1, {":"})
      schemeOk == /\ colon <= Len(s)
                  /\ colon > 1
                  /\ IsLetter(s[1])
                  /\ \A i \in 1..(colon - 1) :
                        IsLetter(s[i]) \/ s[i] \in Digits \cup {"+", "-", "."}
      slashes == /\ colon + 2 <= Len(s)
                 /\ s[colon + 1] = "/"
                 /\ s[colon + 2] = "/"
      stop == FirstIn(s, colon + 3, {"/", "?", "#"})
      auth == SubSeq(s, colon + 3, stop - 1)
      at == LastIndexOf(auth, "@")
      hostport == SubSeq(auth, at + 1, Len(auth))
      host == SubSeq(hostport, 1, FirstIn(hostport, 1, {":"}) - 1)
  IN IF ~schemeOk THEN [ok |-> FALSE, hostname |-> <<>>]
     ELSE IF ~slashes THEN [ok |-> TRUE, hostname |-> <<>>]
     ELSE IF host = <<>> \/ Range(host) \cap ForbiddenHost # {}
     THEN [ok |-> FALSE, hostname |-> <<>>]
     ELSE [ok |-> TRUE, hostname |-> toLowerCase(host)]

\* the hostname of a parse, "" when the constructor threw (the catch blocks)
HostnameOrEmpty(parsed) == IF parsed.ok THEN parsed.hostname ELSE <<>>

\* HrefHostname that falls back to the href as written when it does not parse
HrefHostnameRaw(href) ==
  IF URLHostname(href).ok THEN URLHostname(href).hostname ELSE toLowerCase(href)

\* hrefHostname: "" when new URL(href) throws
HrefHostname(href) == HostnameOrEmpty(URLHostname(href))

\* [^\s/$.?#]
UrlFirstChar(c) == ~IsSpace(c) /\ c \notin {"/", "$", ".", "?", "#"}

\* \b between s[i] and s[i+1]
WordBoundary(s, i) ==
  LET before == i >= 1 /\ i <= Len(s) /\ IsWord(s[i])
      after == i + 1 >= 1 /\ i + 1 <= Len(s) /\ IsWord(s[i + 1])
  IN before # after

\* the end of the tail  [^\s/$.?#] . [^\s]* \b  started at q: the greedy run
\* of [^\s]* is shortened until a word boundary follows; 0 when no match
UrlTailEnd(s, q) ==
  IF ~(q + 1 <= Len(s) /\ UrlFirstChar(s[q])) THEN 0
  ELSE LET runEnd == FirstIn(s, q + 2, {" "}) - 1
           ends == {e \in (q + 1)..runEnd : WordBoundary(s, e)}
       IN IF ends = {} THEN 0 ELSE CHOOSE e \in ends : \A k \in ends : k <= e

\* the match of urlLikeRegex that starts at p, as <<p, end>>; end = 0 when none.
\* First alternative \bhttps?:\/\/..., second alternative (?:www\.)...; flag i.
PrefixAt(s, p, pre) ==
  p + Len(pre) - 1 <= Len(s) /\ toLowerCase(SubSeq(s, p, p + Len(pre) - 1)) = pre

\* the first of the ends e1, e2, e3 that is a match (not 0)
FirstEnd(e1, e2, e3) == IF e1 # 0 THEN e1 ELSE IF e2 # 0 THEN e2 ELSE e3

UrlLikeAt(s, p) ==
  FirstEnd(IF WordBoundary(s, p - 1) /\ PrefixAt(s, p, <<"h","t","t","p","s",":","/","/">>)
           THEN UrlTailEnd(s, p + 8) ELSE 0,
           IF WordBoundary(s, p - 1) /\ PrefixAt(s, p, <<"h","t","t","p",":","/","/">>)
           THEN UrlTailEnd(s, p + 7) ELSE 0,
           IF PrefixAt(s, p, <<"w","w","w",".">>) THEN UrlTailEnd(s, p + 4) ELSE 0)

\* (text || "").match(urlLikeRegex)[0]: the leftmost match, "" when none
LeftmostMatch(text, ends, first) ==
  IF first > Len(text) THEN <<>> ELSE SubSeq(text, first, ends[first])

MatchOf(text, ends) == LeftmostMatch(text, ends, FirstIn(ends, 1, 1..Len(text)))

FirstUrlLike(text) == MatchOf(text, [p \in 1..Len(text) |-> UrlLikeAt(text, p)])

\* visibleHost: "" when the text has no URL-like part or it does not parse
VisibleHostOf(visible) ==
  IF visible = <<>> THEN <<>>
  ELSE HostnameOrEmpty(URLHostname(IF startsWith(visible, <<"h","t","t","p">>)
                                   THEN visible
                                   ELSE <<"h","t","t","p",":","/","/">> \o visible))

VisibleHost(text) == VisibleHostOf(FirstUrlLike(text))

\* Array.prototype.some(s => host.includes(s))
IncludesAny(host, list) == \E k \in 1..Len(list) : includes(host, list[k])

TagMismatch == "text-URL mismatch (visible plaintext differs from href)"
TagShortener == "URL shortener detected"
TagKnownBad == "known malicious domain"
TagAuth == "suspicious auth-related subdomain pattern"
TagHttp == "uses http (not https)"

\* the indicators of one link, in the order the code pushes them
Indicators(href, hrefHostname, visibleHost) ==
     (IF visibleHost # <<>> /\ hrefHostname # <<>> /\ visibleHost # hrefHostname
      THEN <<TagMismatch>> ELSE <<>>)
     \o (IF hrefHostname # <<>> /\ IncludesAny(hrefHostname, shorteners)
         THEN <<TagShortener>> ELSE <<>>)
     \o (IF hrefHostname # <<>> /\ IncludesAny(hrefHostname, knownBad)
         THEN <<TagKnownBad>> ELSE <<>>)
     \o (IF IncludesAny(hrefHostname, authPatterns) THEN <<TagAuth>> ELSE <<>>)
     \o (IF href # <<>> /\ startsWith(href, <<"h","t","t","p",":","/","/">>)
         THEN <<TagHttp>> ELSE <<>>)

LinkIndicators(link) ==
  Indicators(link.href, HrefHostname(link.href), VisibleHost(link.text))

\* suspiciousLinks: one entry per link with a non-empty indicator list
SuspiciousLinks(links) ==
  SelectSeq([k \in 1..Len(links) |->
               [index |-> k - 1,
                href |-> links[k].href,
                text |-> links[k].text,
                reason |-> LinkIndicators(links[k]),
                indicators |-> LinkIndicators(links[k])]],
            LAMBDA entry : Len(entry.indicators) > 0)

StrongLinkTags == {TagKnownBad, TagShortener, TagMismatch}

\* LinkThreatLevel with the threshold 3 instead of 2
LinkThreatLevelThree(suspiciousLinks) ==
  IF Len(suspiciousLinks) >= 3 THEN "danger"
  ELSE IF Len(suspiciousLinks) = 1
  THEN (IF Range(suspiciousLinks[1].indicators) \cap StrongLinkTags # {}
        THEN "danger" ELSE "warning")
  ELSE "safe"

\* LinkThreatLevel that does not count a shortener as strong
LinkThreatLevelNoShortener(suspiciousLinks) ==
  IF Len(suspiciousLinks) >= 2 THEN "danger"
  ELSE IF Len(suspiciousLinks) = 1
  THEN (IF Range(suspiciousLinks[1].indicators) \cap {TagKnownBad, TagMismatch} # {}
        THEN "danger" ELSE "warning")
  ELSE "safe"

\* LinkThreatLevel that lets a single weak finding pass as safe
LinkThreatLevelLenient(suspiciousLinks) ==
  IF Len(suspiciousLinks) >= 2 THEN "danger"
  ELSE IF Len(suspiciousLinks) = 1
          /\ Range(suspiciousLinks[1].indicators) \cap StrongLinkTags # {}
  THEN "danger"
  ELSE "safe"

\* LinkThreatLevel that escalates every single finding
LinkThreatLevelEscalate(suspiciousLinks) ==
  IF Len(suspiciousLinks) >= 1 THEN "danger" ELSE "safe"

\* the scoring heuristics
LinkThreatLevel(suspiciousLinks) ==
  IF Len(suspiciousLinks) >= 2 THEN "danger"
  ELSE IF Len(suspiciousLinks) = 1
  THEN (IF \/ HasTag(suspiciousLinks[1].indicators, TagKnownBad)
           \/ HasTag(suspiciousLinks[1].indicators, TagShortener)
           \/ HasTag(suspiciousLinks[1].indicators, TagMismatch)
        THEN "danger" ELSE "warning")
  ELSE "safe"

Deception(suspiciousLinks, analyzed) ==
  [suspiciousLinks |-> suspiciousLinks,
   threatLevel |-> LinkThreatLevel(suspiciousLinks),
   analyzed |-> analyzed]

analyzeUrlDeception(links) == Deception(<<>> \o SuspiciousLinks(links), Len(links))

AnchorLimit == 200

\* quickScanLinks on the anchors of the page (href and trimmed text of each)
\* the response of quickScanLinks for a level and the mapped suspicious links
LinkVerdict(level, suspiciousLinks) ==
  [level |-> level,
   detail |-> IF level = "safe"
              THEN [msg |-> "No suspicious links detected.", n |-> 0, reasons |-> <<>>]
              ELSE IF Len(suspiciousLinks) > 0
              THEN [msg |-> "suspicious link(s)", n |-> Len(suspiciousLinks),
                    reasons |-> [k \in 1..Min(3, Len(suspiciousLinks)) |->
                                   suspiciousLinks[k].reason]]
              ELSE [msg |-> "Potentially suspicious links found.", n |-> 0,
                    reasons |-> <<>>],
   links |-> suspiciousLinks]

\* level and links of the response from the result of analyzeUrlDeception
FromDeception(deception) ==
  LinkVerdict(IF deception.threatLevel = "danger" THEN "danger"
              ELSE IF deception.threatLevel = "warning" THEN "warning" ELSE "safe",
              [k \in 1..Len(deception.suspiciousLinks) |->
                 [href |-> deception.suspiciousLinks[k].href,
                  reason |-> deception.suspiciousLinks[k].reason,
                  indicators |-> deception.suspiciousLinks[k].indicators]])

quickScanLinks(anchors) ==
  FromDeception(analyzeUrlDeception(SubSeq(anchors, 1, Min(Len(anchors), AnchorLimit))))

(***************************************************************************)
(* JavaScript values of a parsed response                                  *)
(*                                                                         *)
(* t is the type: "undef", "null", "bool", "num", "str", "arr"; b is the   *)
(* truthiness of a boolean or number, s the characters of a string, a the  *)
(* elements of an array.                                                   *)
(***************************************************************************)
JsVal(t, b, str, arr) == [t |-> t, b |-> b, s |-> str, a |-> arr]
Undef == JsVal("undef", FALSE, <<>>, <<>>)
Null == JsVal("null", FALSE, <<>>, <<>>)
Bool(b) == JsVal("bool", b, <<>>, <<>>)
Num(nonzero) == JsVal("num", nonzero, <<>>, <<>>)
Str(chars) == JsVal("str", FALSE, chars, <<>>)
Arr(elems) == JsVal("arr", FALSE, <<>>, elems)

\* ToBoolean
Truthy(v) ==
  CASE v.t = "undef" -> FALSE
    [] v.t = "null" -> FALSE
    [] v.t = "bool" -> v.b
    [] v.t = "num" -> v.b
    [] v.t = "str" -> v.s # <<>>
    [] OTHER -> TRUE

\* x || y
Or(x, y) == IF Truthy(x) THEN x ELSE y

\* v.length: a number for strings and arrays, undefined otherwise (0 here,
\* which has the same truthiness)
Length(v) ==
  IF v.t = "str" THEN Len(v.s) ELSE IF v.t = "arr" THEN Len(v.a) ELSE 0

\* the keys the scan and the summary formatter read from a parsed response,
\* and the error tag's keys
Keys == {"threat_level", "threatLevel", "level", "confidence", "suspicious_items",
         "suspicious_links", "items", "overall_assessment", "error", "message",
         "key_points", "action_items"}

NoFields == [k \in Keys |-> Undef]

(***************************************************************************)
(* parseAIResponse (prompt-templates.js)                                   *)
(*                                                                         *)
(* A response text is a sequence of tokens: "{" and "}", "," , "m" (one    *)
(* member  "key": value  of an object, with key k and value v), "v" (a     *)
(* JSON value that is not an object: v), "w" (white space) and "p" (any    *)
(* other text: prose, brackets).                                           *)
(***************************************************************************)
Tok(c) == [c |-> c, k |-> "", v |-> Undef]
Member(k, v) == [c |-> "m", k |-> k, v |-> v]
Value(v) == [c |-> "v", k |-> "", v |-> v]

\* response.match(/\{[\s\S]*\}/): from the first "{" that has a "}" after it
\* to the last "}"; <<>> when there is no match
JsonMatch(response) ==
  LET opens == {i \in 1..Len(response) : response[i].c = "{"}
      closes == {i \in 1..Len(response) : response[i].c = "}"}
      cand == {i \in opens : \E j \in closes : j > i}
  IN IF cand = {} THEN <<>>
     ELSE LET i == CHOOSE k \in cand : \A m \in cand : k <= m
              j == CHOOSE k \in closes : \A m \in closes : m <= k
          IN SubSeq(response, i, j)

\* the text without its white space
Squeeze(text) == SelectSeq(text, LAMBDA tok : tok.c # "w")

\* members separated by commas: m , m , ... m
RECURSIVE IsMemberList(_)
IsMemberList(toks) ==
  /\ toks # <<>>
  /\ Head(toks).c = "m"
  /\ \/ Len(toks) = 1
     \/ Len(toks) >= 3 /\ toks[2].c = "," /\ IsMemberList(SubSeq(toks, 3, Len(toks)))

\* the fields of a member list; a later duplicate key overrides an earlier one
RECURSIVE FieldsOf(_, _)
FieldsOf(toks, f) ==
  IF toks = <<>> THEN f
  ELSE FieldsOf(Tail(toks),
                IF Head(toks).c = "m" /\ Head(toks).k \in Keys
                THEN [f EXCEPT ![Head(toks).k] = Head(toks).v] ELSE f)

\* JSON.parse: ok = FALSE when it throws; an object has isObj and its fields f,
\* any other value is prim
JSONParse(text) ==
  LET toks == Squeeze(text)
      n == Len(toks)
      inner == SubSeq(toks, 2, n - 1)
  IN IF n >= 2 /\ toks[1].c = "{" /\ toks[n].c = "}"
        /\ (inner = <<>> \/ IsMemberList(inner))
     THEN [ok |-> TRUE, isObj |-> TRUE, prim |-> Undef, f |-> FieldsOf(inner, NoFields)]
     ELSE IF n = 1 /\ toks[1].c = "v"
     THEN [ok |-> TRUE, isObj |-> FALSE, prim |-> toks[1].v, f |-> NoFields]
     ELSE [ok |-> FALSE, isObj |-> FALSE, prim |-> Undef, f |-> NoFields]

\* what parseAIResponse hands to JSON.parse
ParseInput(response) ==
  IF JsonMatch(response) # <<>> THEN JsonMatch(response) ELSE response

\* the try block of parseAIResponse throws
ParseThrows(response) == ~JSONParse(ParseInput(response)).ok

\* the object of the catch block: { error: true, message, raw }; threw is
\* TRUE of a call that ends with an exception instead of a value
ErrorResult(raw) ==
  [threw |-> FALSE, isObj |-> TRUE, prim |-> Undef,
   f |-> [NoFields EXCEPT !["error"] = Bool(TRUE),
                          !["message"] = Str(<<"e","r","r">>)],
   raw |-> raw]

\* the value JSON.parse returned
ParsedResult(json) ==
  [threw |-> FALSE, isObj |-> json.isObj, prim |-> json.prim, f |-> json.f, raw |-> <<>>]

\* parseAIResponse without its catch block
parseAIResponseNoCatch(response) ==
  IF ParseThrows(response)
  THEN [threw |-> TRUE, isObj |-> FALSE, prim |-> Undef, f |-> NoFields, raw |-> <<>>]
  ELSE ParsedResult(JSONParse(ParseInput(response)))

\* the result: the parsed value, or the tagged error object with raw
parseAIResponse(response) ==
  IF ParseThrows(response)
  THEN ErrorResult(response)
  ELSE ParsedResult(JSONParse(ParseInput(response)))

\* !parsed
ParsedFalsy(parsed) == ~parsed.isObj /\ ~Truthy(parsed.prim)

\* parsed[k]: undefined on a value that is not an object
Get(parsed, k) == IF parsed.isObj THEN parsed.f[k] ELSE Undef

(***************************************************************************)
(* Inputs                                                                  *)
(***************************************************************************)
MaxInbox == 2
MaxAnchors == 3

NoStamp == [kind |-> "none", day |-> 0]
Stamp(day) == [kind |-> "date", day |-> day]
Thread(sender, subject, timestamp, rawTimestamp) ==
  [sender |-> sender, subject |-> subject,
   timestamp |-> timestamp, rawTimestamp |-> rawTimestamp]

\* the threads a content script can report: a .tk sender of yesterday, a
\* misspelt brand of today, a clean sender, a .ru sender with no date at all,
\* and a misspelt brand dated ten days ago by its data-timestamp only
ThreadPool == {
  Thread(<<"a","@","x",".","t","k">>, <<"H","i">>, Stamp(Now - 1), NoStamp),
  Thread(<<"G","o","g","l","e"," ","<","n","@","g",".","c","o",">">>, <<>>, Stamp(Now), NoStamp),
  Thread(<<"a","@","p","a","y","p","a","l",".","c","o","m">>, <<"r","e","c","e","i","p","t">>, Stamp(Now - 2), NoStamp),
  Thread(<<"b","@","y",".","r","u">>, <<>>, NoStamp, NoStamp),
  Thread(<<"a","p","l","e">>, <<>>, [kind |-> "invalid", day |-> 0],
         [kind |-> "num", day |-> Now - 10]) }

SeqsUpTo(S, n) == UNION {[1..k -> S] : k \in 0..n}

InboxLists == SeqsUpTo(ThreadPool, MaxInbox)

Link(href, text) == [href |-> href, text |-> text]

\* the anchors of a page: a shortener, plain http, an auth-looking host over
\* https, a clean link, a link whose text shows another host, a script link,
\* and an href the URL parser rejects (a space in the host), which the href
\* property of the anchor returns as written
AnchorPool == {
  Link(<<"h","t","t","p","s",":","/","/","b","i","t",".","l","y","/","a">>, <<"C","l","i","c","k">>),
  Link(<<"h","t","t","p",":","/","/","a",".","i","o">>, <<"a",".","i","o">>),
  Link(<<"h","t","t","p","s",":","/","/","l","o","g","i","n","-","a",".","i","o">>, <<>>),
  Link(<<"h","t","t","p","s",":","/","/","a",".","i","o","/","x">>, <<"s","e","e"," ","h","t","t","p",":","/","/","a",".","i","o"," ","n","o","w">>),
  Link(<<"h","t","t","p","s",":","/","/","b",".","i","o">>, <<"w","w","w",".","a",".","i","o">>),
  Link(<<"j","a","v","a","s","c","r","i","p","t",":","x">>, <<"g","o">>),
  Link(<<"h","t","t","p",":","/","/","b","i","t",".","l","y"," ","x">>, <<>>) }

AnchorLists == SeqsUpTo(AnchorPool, MaxAnchors)

\* an item as a remote model reports it
RemoteItem ==
  [index |-> 1, sender |-> <<"a","@","b",".","c">>, subject |-> <<>>,
   reason |-> [what |-> "remote", a |-> NoText, b |-> NoText, n |-> 0],
   indicators |-> <<"odd-domain">>]

Danger == <<"d","a","n","g","e","r">>
Warning == <<"w","a","r","n","i","n","g">>
Safe == <<"s","a","f","e">>

\* the texts a provider can answer with
RemoteTexts == {
  \* the object alone
  << Tok("{"), Member("threat_level", Str(Danger)), Tok(","),
     Member("confidence", Num(TRUE)), Tok(","),
     Member("suspicious_items", Arr(<<RemoteItem>>)), Tok("}") >>,
  \* the object in prose
  << Tok("p"), Tok("w"), Tok("{"), Member("threatLevel", Str(Warning)), Tok(","),
     Member("items", Arr(<<RemoteItem, RemoteItem>>)), Tok("}"), Tok("p") >>,
  \* a level and no items
  << Tok("{"), Member("threat_level", Str(Danger)), Tok("}") >>,
  \* an assessment and an empty item list
  << Tok("{"), Member("level", Str(Safe)), Tok(","),
     Member("overall_assessment", Str(<<"o","k">>)), Tok(","),
     Member("suspicious_items", Arr(<<>>)), Tok("}") >>,
  \* an unknown level, items under suspicious_links
  << Tok("{"), Member("threat_level", Str(<<"h","i","g","h">>)), Tok(","),
     Member("suspicious_links", Arr(<<RemoteItem>>)), Tok("}") >>,
  \* the empty object
  << Tok("{"), Tok("w"), Tok("}") >>,
  \* an object with an error field of its own
  << Tok("{"), Member("error", Str(<<"x">>)), Tok(","),
     Member("threat_level", Str(Danger)), Tok("}") >>,
  \* prose only
  << Tok("p"), Tok("w"), Tok("p") >>,
  \* white space only
  << Tok("w") >>,
  \* a brace in the prose after the object
  << Tok("{"), Member("threat_level", Str(Safe)), Tok("}"), Tok("p"), Tok("}") >>,
  \* a trailing comma
  << Tok("{"), Member("threat_level", Str(Safe)), Tok(","), Tok("}") >>,
  \* values that are not objects
  << Value(Null) >>,
  << Value(Num(FALSE)) >>,
  << Value(Num(TRUE)) >>,
  << Value(Str(Danger)) >> }

\* String.prototype.trim() of a response is not empty
TrimNonEmpty(text) == Squeeze(text) # <<>>

(***************************************************************************)
(* The SCAN_INBOX_THREATS handler (background.js), after sendPrompt        *)
(***************************************************************************)
NoResp == [kind |-> "none", text |-> <<>>]

\* parsed = parseAIResponse(llmResp) when llmResp is a string with text in it
HasText(llmResp) == llmResp.kind = "text" /\ TrimNonEmpty(llmResp.text)

\* NeedsFallback without the test of the error tag
NeedsFallbackNoErrorTag(parsed) == ParsedFalsy(parsed)

\* NeedsFallback that never trusts the response
NeedsFallbackAlways(parsed) == TRUE

\* !parsed || parsed.error, for a parsed value
NeedsFallback(parsed) == ParsedFalsy(parsed) \/ Truthy(Get(parsed, "error"))

\* LevelOf that reports a level it does not know as neutral
LevelOfUnknownNeutral(lvl) ==
  IF lvl.t = "str" /\ lvl.s = Danger THEN "danger"
  ELSE IF lvl.t = "str" /\ lvl.s = Warning THEN "warning"
  ELSE IF lvl.t = "str" /\ lvl.s = Safe THEN "safe"
  ELSE "neutral"

\* lvl === "danger" ? "danger" : lvl === "warning" ? "warning" : "safe"
LevelOf(lvl) ==
  IF lvl.t = "str" /\ lvl.s = Danger THEN "danger"
  ELSE IF lvl.t = "str" /\ lvl.s = Warning THEN "warning"
  ELSE "safe"

\* the result built from the parsed response
NormalizeParsed(parsed) ==
  LET lvl == Or(Or(Or(Get(parsed, "threat_level"), Get(parsed, "threatLevel")),
                   Get(parsed, "level")), Str(Safe))
      si == Get(parsed, "suspicious_items")
      oa == Get(parsed, "overall_assessment")
      detail == IF Truthy(oa)
                THEN [msg |-> "overall_assessment", n |-> 0, text |-> oa.s]
                ELSE IF Truthy(si) /\ Length(si) # 0
                THEN [msg |-> "Found suspicious item(s)", n |-> Length(si), text |-> <<>>]
                ELSE [msg |-> "Checks out!", n |-> 0, text |-> <<>>]
      items == Or(Or(si, Get(parsed, "items")), Arr(<<>>))
  IN [level |-> LevelOf(lvl),
      detail |-> detail,
      hasFindings |-> TRUE,
      findingsIsArray |-> items.t = "arr",
      findings |-> items.a,
      hasConfidence |-> FALSE]

\* HandlerTail whose fallback branch does not return: the handler goes on to
\* format the response and sends a second result
HandlerTailNoReturn(llmResp, filtered) ==
  IF ~HasText(llmResp) \/ NeedsFallback(parseAIResponse(llmResp.text))
  THEN [sent |-> <<analyzeInboxLocally(filtered), analyzeInboxLocally(filtered)>>,
        branch |-> <<"local-fallback", "local-fallback">>, local |-> 2]
  ELSE [sent |-> <<NormalizeParsed(parseAIResponse(llmResp.text))>>,
        branch |-> <<"remote-parsed">>, local |-> 0]

\* what the handler does once sendPrompt has settled: the results it sends, in
\* order, the branch of each, and the number of calls of analyzeInboxLocally
HandlerTail(llmResp, filtered) ==
  IF ~HasText(llmResp) \/ NeedsFallback(parseAIResponse(llmResp.text))
  THEN [sent |-> <<analyzeInboxLocally(filtered)>>,
        branch |-> <<"local-fallback">>, local |-> 1]
  ELSE [sent |-> <<NormalizeParsed(parseAIResponse(llmResp.text))>>,
        branch |-> <<"remote-parsed">>, local |-> 0]

(***************************************************************************)
(* State                                                                   *)
(***************************************************************************)
VARIABLES
  pageContext,   \* what the popup found the tab to show: "inbox" or "email"
  pc,            \* where the SCAN_INBOX_THREATS handler is
  threads,       \* what requestInboxThreads returned
  filtered,      \* filterThreadsByDateAndLimit(threads)
  requests,      \* GET_INBOX_THREADS messages sent to the tab
  remoteCalls,   \* calls of sendPrompt
  llmResp,       \* what sendPrompt settled with
  localRuns,     \* calls of analyzeInboxLocally
  responses,     \* the results handed to sendResponse, in order
  outcome,       \* the branch that sent each of them
  linkPc,        \* where the SCAN_LINKS handler of the content script is
  anchors,       \* the anchors it scanned
  linkResponses, \* the results it handed to sendResponse
  fn,            \* the function called on its own: "levenshtein",
                 \* "analyzeInboxLocally", "parseAIResponse",
                 \* "filterThreadsByDateAndLimit"; "none" in a scan
  arg,           \* its argument(s)
  ret,           \* what it returned; NotCalled before the call
  helpers,       \* the calls of a message-with-timeout helper, in order
  rit,           \* where a call of requestInboxThreads is
  scans,         \* the locals of each of the scans that run side by side
  page,          \* the anchors of the open email, in document order
  popup,         \* the spam button of the popup and pendingUnsubscribeLink
  opened,        \* the unsubscribe URLs that were opened or navigated to
  stored,        \* chrome.storage.sync: aiProvider and apiKey
  sum,           \* the handler of a message that leads to a prompt
  posted,        \* the messages posted on the port, in order
  prompts        \* the prompts sent to a provider, in order

vars == <<pageContext, pc, threads, filtered, requests, remoteCalls, llmResp, localRuns,
          responses, outcome, linkPc, anchors, linkResponses, fn, arg, ret,
          helpers, rit, scans, page, popup, opened, stored, sum, posted, prompts>>

\* the state of a summarization and of the provider settings
summaryVars == <<stored, sum, posted, prompts>>

\* the state outside the scans and the functions called on their own
others == <<helpers, rit, scans, page, popup, opened, summaryVars>>

\* chrome.storage.sync before any settings were saved
NothingStored == [aiProvider |-> "", apiKey |-> <<>>]

\* no message that leads to a prompt has arrived
SumIdle ==
  [type |-> "none", pc |-> "idle", checked |-> "", provider |-> "",
   stream |-> <<>>, rest |-> <<>>, buffer |-> <<>>]

SummaryIdle ==
  /\ stored = NothingStored
  /\ sum = SumIdle
  /\ posted = <<>>
  /\ prompts = <<>>

\* the popup before a script is loaded in it
PopupIdle ==
  [script |-> "none", pending |-> <<>>, button |-> "enabled", clipboard |-> <<>>]

\* two scans side by side
ScanIds == {1, 2}

\* the locals of a scan that has not started
IdleScan ==
  [kind |-> "none", pc |-> "idle", threads |-> <<>>, filtered |-> <<>>,
   anchors |-> <<>>, llmResp |-> NoResp, sent |-> <<>>]

RitIdle == [pc |-> "idle", delayed |-> FALSE]

OthersIdle ==
  /\ helpers = <<>>
  /\ rit = RitIdle
  /\ scans = [i \in ScanIds |-> IdleScan]
  /\ page = <<>>
  /\ popup = PopupIdle
  /\ opened = <<>>
  /\ SummaryIdle

NotCalled == [called |-> FALSE]

\* the popup's threat check asks the background for an inbox scan when the tab
\* shows the inbox, and the content script for a link scan otherwise

\* no scan has been asked for
ScanIdle ==
  /\ pc = "idle"
  /\ threads = <<>>
  /\ filtered = <<>>
  /\ requests = 0
  /\ remoteCalls = 0
  /\ llmResp = NoResp
  /\ localRuns = 0
  /\ responses = <<>>
  /\ outcome = <<>>
  /\ linkPc = "idle"
  /\ anchors = <<>>
  /\ linkResponses = <<>>

Init ==
  /\ pageContext \in {"inbox", "email"}
  /\ ScanIdle
  /\ fn = "none"
  /\ arg = <<>>
  /\ ret = NotCalled
  /\ OthersIdle

\* sendResponse({ result: neutral }) and return
RespondNeutral(msg) ==
  /\ responses' = Append(responses, Verdict("neutral", msg, 0, FALSE, <<>>))
  /\ outcome' = Append(outcome, "neutral")
  /\ pc' = "done"

\* the handler from the return of requestInboxThreads to the call of sendPrompt
AfterThreads(list) ==
  IF Len(list) = 0
  THEN /\ RespondNeutral("No recent threads found to analyze")
       /\ UNCHANGED <<threads, filtered, remoteCalls>>
  ELSE /\ threads' = list
       /\ filtered' = filterThreadsByDateAndLimit(list)
       /\ remoteCalls' = remoteCalls + 1
       /\ pc' = "REMOTE_ATTEMPTED"
       /\ UNCHANGED <<responses, outcome>>

\* the message arrives.  tab: msg.tabId is "given", "absent" (the handler
\* looks for a Gmail tab) or "malformed" (chrome.tabs.sendMessage throws, which
\* the outer catch turns into a neutral result)
ScanInboxThreats(tab) ==
  /\ pageContext = "inbox"
  /\ pc = "idle"
  /\ \/ /\ tab = "absent"
        /\ pc' = "findTab"
        /\ UNCHANGED <<requests, responses, outcome>>
     \/ /\ tab = "given"
        /\ pc' = "req1"
        /\ requests' = requests + 1
        /\ UNCHANGED <<responses, outcome>>
     \/ /\ tab = "malformed"
        /\ RespondNeutral("Inbox scan failed")
        /\ UNCHANGED requests
  /\ UNCHANGED <<threads, filtered, remoteCalls, llmResp, localRuns>>
  /\ UNCHANGED <<pageContext, linkPc, anchors, linkResponses, fn, arg, ret, others>>

\* findActiveGmailTabId resolves
FindTabDone(found) ==
  /\ pc = "findTab"
  /\ IF found
     THEN /\ pc' = "req1"
          /\ requests' = requests + 1
          /\ UNCHANGED <<responses, outcome>>
     ELSE /\ RespondNeutral("Open Gmail inbox to analyze")
          /\ UNCHANGED requests
  /\ UNCHANGED <<threads, filtered, remoteCalls, llmResp, localRuns>>
  /\ UNCHANGED <<pageContext, linkPc, anchors, linkResponses, fn, arg, ret, others>>

\* the first sendMessageWithTimeout settles: with the threads of the content
\* script, or with nothing (no response, no threads field, or the timer)
FirstRequestDone(answered, list) ==
  /\ pc = "req1"
  /\ IF answered /\ Len(list) > 0
     THEN AfterThreads(list)
     ELSE /\ pc' = "inject"
          /\ UNCHANGED <<threads, filtered, remoteCalls, responses, outcome>>
  /\ UNCHANGED <<requests, llmResp, localRuns>>
  /\ UNCHANGED <<pageContext, linkPc, anchors, linkResponses, fn, arg, ret, others>>

\* chrome.scripting.executeScript settles; a rejection is caught and
\* requestInboxThreads returns []
InjectDone(ok) ==
  /\ pc = "inject"
  /\ IF ok
     THEN /\ pc' = "delay"
          /\ UNCHANGED <<threads, filtered, remoteCalls, responses, outcome>>
     ELSE AfterThreads(<<>>)
  /\ UNCHANGED <<requests, llmResp, localRuns>>
  /\ UNCHANGED <<pageContext, linkPc, anchors, linkResponses, fn, arg, ret, others>>

\* the 400 ms delay is over and the second request goes out
DelayDone ==
  /\ pc = "delay"
  /\ pc' = "req2"
  /\ requests' = requests + 1
  /\ UNCHANGED <<threads, filtered, remoteCalls, llmResp, localRuns, responses, outcome>>
  /\ UNCHANGED <<pageContext, linkPc, anchors, linkResponses, fn, arg, ret, others>>

\* the second sendMessageWithTimeout settles
SecondRequestDone(answered, list) ==
  /\ pc = "req2"
  /\ AfterThreads(IF answered THEN list ELSE <<>>)
  /\ UNCHANGED <<requests, llmResp, localRuns>>
  /\ UNCHANGED <<pageContext, linkPc, anchors, linkResponses, fn, arg, ret, others>>

\* sendPrompt settles (resp) and the handler runs to its end
RemoteSettled(resp) ==
  /\ pc = "REMOTE_ATTEMPTED"
  /\ llmResp' = resp
  /\ LET tail == HandlerTail(resp, filtered)
     IN /\ responses' = responses \o tail.sent
        /\ outcome' = outcome \o tail.branch
        /\ localRuns' = localRuns + tail.local
  /\ pc' = "done"
  /\ UNCHANGED <<threads, filtered, requests, remoteCalls>>
  /\ UNCHANGED <<pageContext, linkPc, anchors, linkResponses, fn, arg, ret, others>>

\* sendPrompt resolves with the text of the provider
RemoteResolve(text) == RemoteSettled([kind |-> "text", text |-> text])

\* sendPrompt resolves with a value that is not a string (a null content)
RemoteOther == RemoteSettled([kind |-> "other", text |-> <<>>])

\* sendPrompt rejects (network error, HTTP status, malformed body)
RemoteReject == RemoteSettled([kind |-> "rejected", text |-> <<>>])

\* the SCAN_LINKS handler of the content script
ScanLinks(list) ==
  /\ pageContext = "email"
  /\ linkPc = "idle"
  /\ anchors' = list
  /\ linkResponses' = Append(linkResponses, quickScanLinks(list))
  /\ linkPc' = "done"
  /\ UNCHANGED <<pageContext, pc, threads, filtered, requests, remoteCalls, llmResp,
                 localRuns, responses, outcome, fn, arg, ret, others>>

Next ==
  \/ \E tab \in {"given", "absent", "malformed"} : ScanInboxThreats(tab)
  \/ \E found \in BOOLEAN : FindTabDone(found)
  \/ \E answered \in BOOLEAN, list \in InboxLists : FirstRequestDone(answered, list)
  \/ \E ok \in BOOLEAN : InjectDone(ok)
  \/ DelayDone
  \/ \E answered \in BOOLEAN, list \in InboxLists : SecondRequestDone(answered, list)
  \/ \E text \in RemoteTexts : RemoteResolve(text)
  \/ RemoteOther
  \/ RemoteReject
  \/ \E list \in AnchorLists : ScanLinks(list)

Spec == Init /\ [][Next]_vars

\* every step but the settling of sendPrompt is bound to happen: the requests
\* to the tab are raced against timers, the browser calls settle, the link scan
\* is synchronous.  sendPrompt awaits a fetch without a timeout, which settles
\* only if the provider answers or the connection fails.
LocalNext ==
  \/ \E tab \in {"given", "absent", "malformed"} : ScanInboxThreats(tab)
  \/ \E found \in BOOLEAN : FindTabDone(found)
  \/ \E answered \in BOOLEAN, list \in InboxLists : FirstRequestDone(answered, list)
  \/ \E ok \in BOOLEAN : InjectDone(ok)
  \/ DelayDone
  \/ \E answered \in BOOLEAN, list \in InboxLists : SecondRequestDone(answered, list)
  \/ \E list \in AnchorLists : ScanLinks(list)

LiveSpec == Init /\ [][Next]_vars /\ WF_vars(LocalNext)

(***************************************************************************)
(* The functions called on their own                                       *)
(***************************************************************************)
MaxStr == 3
MaxThreads == 2

\* strings over two letters, one of them in both cases
LevStrings == SeqsUpTo({"a", "b", "A"}, MaxStr)

Sender(sender, subject) == Thread(sender, subject, NoStamp, NoStamp)

\* threads for analyzeInboxLocally: a .tk sender, a clean sender, a brand
\* misspelt by one letter, a look-alike of a brand two edits away, a short
\* brand misspelt by one letter, a token too short to compare, a long brand
\* misspelt by two letters, and a .TK domain in capitals after a display name
AnalyzedPool == {
  Sender(<<"a","@","x",".","t","k">>, <<"H","i">>),
  Sender(<<"a","@","p","a","y","p","a","l",".","c","o","m">>, <<"r","e","c","e","i","p","t">>),
  Sender(<<"g","o","g","l","e">>, <<>>),
  Sender(<<"s","u","p","p","o","r","t","@","r","n","i","c","r","o","s","o","f","t","-",
           "s","e","c","u","r","i","t","y",".","c","o","m">>,
         <<"v","e","r","i","f","y">>),
  Sender(<<"b","o","n","k">>, <<>>),
  Sender(<<"b","a","n">>, <<>>),
  Sender(<<"b","a","n","k","o","f","a","m","u","r","i","k","a">>, <<>>),
  Sender(<<"X"," ","<","n","@","E","V","I","L",".","T","K",">">>, <<>>) }

AnalyzedLists == SeqsUpTo(AnalyzedPool, MaxThreads)

\* an argument of parseAIResponse: a string (kind "text": block is the whole
\* text; kind "framed": a well-formed object block between the prose pre and
\* post) or a value that is not a string (kind "other")
Input(kind, pre, block, post, value) ==
  [kind |-> kind, pre |-> pre, block |-> block, post |-> post, value |-> value]

TextOf(input) == input.pre \o input.block \o input.post

\* well-formed object blocks
Blocks == {
  << Tok("{"), Member("threat_level", Str(Danger)), Tok(","),
     Member("suspicious_items", Arr(<<RemoteItem>>)), Tok("}") >>,
  << Tok("{"), Member("level", Str(Safe)), Tok(","), Tok("w"),
     Member("overall_assessment", Str(<<"o","k">>)), Tok("}") >>,
  << Tok("{"), Tok("w"), Tok("}") >> }

\* prose before a block: none, words, words with an opening brace, words
\* with a closing brace
ProseBefore == {
  <<>>,
  << Tok("p"), Tok("w") >>,
  << Tok("p"), Tok("{"), Tok("w") >>,
  << Tok("}"), Tok("p") >> }

\* prose after a block: none, words, words with a closing brace, words with
\* an opening brace
ProseAfter == {
  <<>>,
  << Tok("w"), Tok("p") >>,
  << Tok("p"), Tok("}") >>,
  << Tok("p"), Tok("{"), Tok("p") >> }

ParseInputs ==
  {Input("text", <<>>, t, <<>>, Undef) : t \in RemoteTexts}
  \cup {Input("framed", pre, b, post, Undef) :
          pre \in ProseBefore, b \in Blocks, post \in ProseAfter}
  \cup {Input("other", <<>>, <<>>, <<>>, v) : v \in {Undef, Null, Num(TRUE)}}

\* parseAIResponse on any value: response.match of a value that is not a
\* string throws a TypeError inside the try block
parseAIResponseOf(input) ==
  IF input.kind = "other" THEN ErrorResult(input.value)
  ELSE parseAIResponse(TextOf(input))

\* the list seed repeated up to n threads
Cycle(seed, n) == [i \in 1..n |-> seed[((i - 1) % Len(seed)) + 1]]

MaxOver == 2

\* thread lists for filterThreadsByDateAndLimit: the short lists of a content
\* script, and lists around the limit made by repeating a short one
FilterLists ==
  InboxLists \cup
  {Cycle(seed, n) : seed \in InboxLists \ {<<>>},
                    n \in (ThreadLimit - 1)..(ThreadLimit + MaxOver)}

FnInit ==
  /\ pageContext = "inbox"
  /\ ScanIdle
  /\ OthersIdle
  /\ ret = NotCalled
  /\ \/ fn = "levenshtein" /\ arg \in LevStrings \X LevStrings
     \/ fn = "analyzeInboxLocally" /\ arg \in AnalyzedLists
     \/ fn = "parseAIResponse" /\ arg \in ParseInputs
     \/ fn = "filterThreadsByDateAndLimit" /\ arg \in FilterLists

FnIdle ==
  UNCHANGED <<pageContext, pc, threads, filtered, requests, remoteCalls, llmResp,
              localRuns, responses, outcome, linkPc, anchors, linkResponses, fn, arg,
              others>>

Returned(value) == [called |-> TRUE, value |-> value]

CallLevenshtein ==
  /\ fn = "levenshtein"
  /\ ~ret.called
  /\ ret' = Returned(levenshtein(arg[1], arg[2]))
  /\ FnIdle

CallAnalyzeInboxLocally ==
  /\ fn = "analyzeInboxLocally"
  /\ ~ret.called
  /\ ret' = Returned(analyzeInboxLocally(arg))
  /\ FnIdle

CallParseAIResponse ==
  /\ fn = "parseAIResponse"
  /\ ~ret.called
  /\ ret' = Returned(parseAIResponseOf(arg))
  /\ FnIdle

CallFilterThreadsByDateAndLimit ==
  /\ fn = "filterThreadsByDateAndLimit"
  /\ ~ret.called
  /\ ret' = Returned(filterThreadsByDateAndLimit(arg))
  /\ FnIdle

FnNext ==
  \/ CallLevenshtein
  \/ CallAnalyzeInboxLocally
  \/ CallParseAIResponse
  \/ CallFilterThreadsByDateAndLimit

FnSpec == FnInit /\ [][FnNext]_vars

(***************************************************************************)
(* Properties of the inbox scan                                            *)
(***************************************************************************)

\* sendPrompt failed for the handler: it rejected, resolved with something
\* that is no text (not a string, or blank), or with text that
\* parseAIResponse could not parse and tagged as an error
RemoteFailed ==
  \/ llmResp.kind \in {"rejected", "other"}
  \/ llmResp.kind = "text" /\ ~TrimNonEmpty(llmResp.text)
  \/ llmResp.kind = "text" /\ ParseThrows(llmResp.text)

\* sendPrompt resolved with text that parsed without an error
RemoteParsed ==
  /\ llmResp.kind = "text"
  /\ TrimNonEmpty(llmResp.text)
  /\ ~ParseThrows(llmResp.text)

\* the parsed value is truthy and has no truthy error field
RemoteUsable ==
  /\ RemoteParsed
  /\ ~ParsedFalsy(parseAIResponse(llmResp.text))
  /\ ~Truthy(Get(parseAIResponse(llmResp.text), "error"))

\* the level field the handler reads from the parsed response
DeclaredLevel(parsed) ==
  Or(Or(Or(Get(parsed, "threat_level"), Get(parsed, "threatLevel")),
        Get(parsed, "level")), Str(Safe))

\* C1: when the remote call rejects, returns no text, or returns text that
\* fails to parse, the one result sent is the result of analyzeInboxLocally on
\* the filtered threads, unchanged.
C1_FallbackIsLocalVerdict ==
  (pc = "done" /\ RemoteFailed) =>
     /\ responses = <<analyzeInboxLocally(filtered)>>
     /\ outcome = <<"local-fallback">>

\* a scan whose provider answered with prose that does not parse, and whose
\* local analysis found a threat
C1_Witness ==
  /\ pc = "done"
  /\ llmResp.kind = "text"
  /\ TrimNonEmpty(llmResp.text)
  /\ ParseThrows(llmResp.text)
  /\ responses = <<analyzeInboxLocally(filtered)>>
  /\ responses[1].level = "danger"

\* C2: a scan calls sendPrompt at most once, sends nothing before it ends and
\* exactly one result when it ends, and that result comes from exactly one of
\* the branches remote-parsed, local-fallback, neutral.
C2_OneCallOneResponse ==
  /\ remoteCalls <= 1
  /\ Len(outcome) = Len(responses)
  /\ pc # "done" => Len(responses) = 0
  /\ pc = "done" =>
        /\ Len(responses) = 1
        /\ outcome[1] \in {"remote-parsed", "local-fallback", "neutral"}
        /\ outcome[1] = "neutral" <=> responses[1].level = "neutral"
        /\ outcome[1] = "neutral" <=> remoteCalls = 0

\* a scan that ended with the result of the one remote call
C2_Witness ==
  /\ pc = "done"
  /\ remoteCalls = 1
  /\ outcome = <<"remote-parsed">>
  /\ Len(responses) = 1

\* C3: once the remote call is outstanding the scan eventually sends its
\* result, even if sendPrompt never settles.
C3_ScanEventuallyResponds == (pc = "REMOTE_ATTEMPTED") ~> (Len(responses) = 1)

\* C4 (as stated): when the remote text parses without error, the result is
\* the one built from the parsed response and analyzeInboxLocally is not run.
C4_ParsedRemoteAlwaysUsed ==
  (pc = "done" /\ RemoteParsed) =>
     /\ outcome = <<"remote-parsed">>
     /\ localRuns = 0

\* C4 (amended): when the remote text parses to a truthy value that has no
\* truthy error field, the result is the one built from the parsed response
\* alone and analyzeInboxLocally is not run; when it parses to a falsy value
\* or to an object with a truthy error field, the local fallback is used.
C4_AcceptedRemoteTakesPrecedence ==
  (pc = "done" /\ RemoteParsed) =>
     IF RemoteUsable
     THEN /\ responses = <<NormalizeParsed(parseAIResponse(llmResp.text))>>
          /\ outcome = <<"remote-parsed">>
          /\ localRuns = 0
     ELSE /\ responses = <<analyzeInboxLocally(filtered)>>
          /\ outcome = <<"local-fallback">>
          /\ localRuns = 1

\* a scan in which the remote response said danger while the local analyzer
\* would have said safe, and the remote one was sent
C4_Witness ==
  /\ pc = "done"
  /\ RemoteUsable
  /\ localRuns = 0
  /\ Len(responses) = 1
  /\ responses[1].level = "danger"
  /\ analyzeInboxLocally(filtered).level = "safe"

\* C5: every result sent, by the inbox scan or by the link scan, that has no
\* findings has level safe or neutral.
C5_NoFindingsSafeOrNeutral ==
  /\ \A i \in 1..Len(responses) :
        Len(responses[i].findings) = 0 => responses[i].level \in {"safe", "neutral"}
  /\ \A i \in 1..Len(linkResponses) :
        Len(linkResponses[i].links) = 0 => linkResponses[i].level \in {"safe", "neutral"}

\* C6 (as stated): every result with level danger has a finding with a strong
\* tag: known malicious domain, URL shortener or text-URL mismatch for links,
\* suspicious-tld or typosquatting for threads.
C6_DangerHasStrongFinding ==
  /\ \A i \in 1..Len(responses) :
        responses[i].level = "danger" =>
           \E k \in 1..Len(responses[i].findings) :
              Range(responses[i].findings[k].indicators)
                 \cap {"suspicious-tld", "typosquatting"} # {}
  /\ \A i \in 1..Len(linkResponses) :
        linkResponses[i].level = "danger" =>
           \E k \in 1..Len(linkResponses[i].links) :
              Range(linkResponses[i].links[k].indicators) \cap StrongLinkTags # {}

\* C6 (amended): every result with level danger has a finding with a strong
\* tag, or is a link result with two or more findings, or is the result built
\* from a parsed remote response whose level field is exactly "danger".
C6_DangerHasCause ==
  /\ \A i \in 1..Len(responses) :
        responses[i].level = "danger" =>
           \/ \E k \in 1..Len(responses[i].findings) :
                 Range(responses[i].findings[k].indicators)
                    \cap {"suspicious-tld", "typosquatting"} # {}
           \/ /\ outcome[i] = "remote-parsed"
              /\ DeclaredLevel(parseAIResponse(llmResp.text)) = Str(Danger)
  /\ \A i \in 1..Len(linkResponses) :
        linkResponses[i].level = "danger" =>
           \/ \E k \in 1..Len(linkResponses[i].links) :
                 Range(linkResponses[i].links[k].indicators) \cap StrongLinkTags # {}
           \/ Len(linkResponses[i].links) >= 2

\* a link scan that said danger for two links of which none has a strong tag
C6_Witness ==
  /\ linkPc = "done"
  /\ Len(linkResponses) = 1
  /\ linkResponses[1].level = "danger"
  /\ Len(linkResponses[1].links) = 2
  /\ \A k \in 1..2 :
        Range(linkResponses[1].links[k].indicators) \cap StrongLinkTags = {}

\* C7: an inbox scan whose list of threads to analyse (the filtered threads)
\* is empty sends a result with level neutral.
C7_EmptyItemsNeutral ==
  (pc = "done" /\ Len(filtered) = 0) =>
     \A i \in 1..Len(responses) : responses[i].level = "neutral"

(***************************************************************************)
(* Properties of the link scan                                             *)
(***************************************************************************)

\* the number of links with a non-empty indicator list
FlaggedCount(links) ==
  Cardinality({k \in 1..Len(links) : Len(LinkIndicators(links[k])) > 0})

\* the indicators of the flagged links of a list
FlaggedTags(links) ==
  UNION {Range(LinkIndicators(links[k])) : k \in 1..Len(links)}

\* C8: a link list with two or more flagged links gets level danger.
C8_TwoFlaggedIsDanger ==
  (linkPc = "done" /\ FlaggedCount(anchors) >= 2) =>
     /\ Len(linkResponses) = 1
     /\ linkResponses[1].level = "danger"

\* a scanned page with three anchors, two of them flagged for weak reasons only
C8_Witness ==
  /\ linkPc = "done"
  /\ Len(anchors) = 3
  /\ FlaggedCount(anchors) = 2
  /\ FlaggedTags(anchors) \cap StrongLinkTags = {}
  /\ linkResponses[1].level = "danger"

\* C9: a link list with exactly one flagged link gets danger if the link's
\* indicators include known malicious domain, URL shortener or text-URL
\* mismatch, and warning otherwise.
C9_OneFlaggedByStrength ==
  (linkPc = "done" /\ FlaggedCount(anchors) = 1) =>
     /\ Len(linkResponses) = 1
     /\ linkResponses[1].level =
           IF FlaggedTags(anchors) \cap StrongLinkTags # {} THEN "danger" ELSE "warning"

\* a scanned page whose only flagged anchor has the auth pattern and nothing else
C9_Witness ==
  /\ linkPc = "done"
  /\ Len(anchors) >= 2
  /\ FlaggedCount(anchors) = 1
  /\ FlaggedTags(anchors) = {TagAuth}
  /\ linkResponses[1].level = "warning"

\* C10: the link scan always answers; its level is safe exactly when no link
\* is flagged, and the empty list gets safe with no findings.
C10_SafeIffNoneFlagged ==
  linkPc = "done" =>
     /\ Len(linkResponses) = 1
     /\ linkResponses[1].level = "safe" <=> FlaggedCount(anchors) = 0
     /\ FlaggedCount(anchors) = 0 => linkResponses[1].links = <<>>
     /\ anchors = <<>> => linkResponses[1].level = "safe"

\* a scanned page without anchors
C10_Witness ==
  /\ linkPc = "done"
  /\ anchors = <<>>
  /\ linkResponses[1].level = "safe"
  /\ linkResponses[1].links = <<>>

\* the scanned anchors whose href the URL parser rejects
Unparseable == {k \in 1..Len(anchors) : ~URLHostname(anchors[k].href).ok}

\* C11 (as stated): for an href that does not parse the scan still answers,
\* and the shortener, known-malicious and http:// checks are made on the href
\* as written.
C11_RawChecksStillApply ==
  linkPc = "done" =>
     /\ Len(linkResponses) = 1
     /\ \A k \in Unparseable :
           /\ HasTag(LinkIndicators(anchors[k]), TagShortener)
                 <=> IncludesAny(anchors[k].href, shorteners)
           /\ HasTag(LinkIndicators(anchors[k]), TagKnownBad)
                 <=> IncludesAny(anchors[k].href, knownBad)
           /\ HasTag(LinkIndicators(anchors[k]), TagHttp)
                 <=> startsWith(anchors[k].href, <<"h","t","t","p",":","/","/">>)

\* C11 (amended): for an href that does not parse the scan still answers; the
\* http:// prefix check on the href as written is the only one that can give
\* an indicator, the checks on the hostname (mismatch, shortener, known
\* malicious, auth pattern) give none.
C11_OnlyPrefixCheckOnRawHref ==
  linkPc = "done" =>
     /\ Len(linkResponses) = 1
     /\ \A k \in Unparseable :
           IF startsWith(anchors[k].href, <<"h","t","t","p",":","/","/">>)
           THEN /\ LinkIndicators(anchors[k]) = <<TagHttp>>
                /\ \E j \in 1..Len(linkResponses[1].links) :
                      /\ linkResponses[1].links[j].href = anchors[k].href
                      /\ linkResponses[1].links[j].indicators = <<TagHttp>>
           ELSE LinkIndicators(anchors[k]) = <<>>

\* a scanned page whose only anchor has an href that does not parse, names a
\* shortener and starts with http://
C11_Witness ==
  /\ linkPc = "done"
  /\ Len(anchors) = 1
  /\ Unparseable = {1}
  /\ IncludesAny(anchors[1].href, shorteners)
  /\ linkResponses[1].level = "warning"
  /\ linkResponses[1].links[1].indicators = <<TagHttp>>

(***************************************************************************)
(* Properties of the functions                                             *)
(***************************************************************************)

\* the classic edit distance: the least number of insertions, deletions and
\* substitutions of one character that turn a into b
RECURSIVE EditDistance(_, _)
EditDistance(a, b) ==
  IF a = <<>> THEN Len(b)
  ELSE IF b = <<>> THEN Len(a)
  ELSE Min(Min(EditDistance(Tail(a), b) + 1, EditDistance(a, Tail(b)) + 1),
           EditDistance(Tail(a), Tail(b)) + (IF Head(a) = Head(b) THEN 0 ELSE 1))

\* C12: levenshtein(a, b) is the classic edit distance of the lower-cased
\* strings; so it is 0 for a = b, Len(b) for a = "", the same for (b, a), and
\* 0 for strings that differ in case only.
C12_LevenshteinIsEditDistance ==
  (fn = "levenshtein" /\ ret.called) =>
     /\ ret.value = EditDistance(toLowerCase(arg[1]), toLowerCase(arg[2]))
     /\ arg[1] = arg[2] => ret.value = 0
     /\ arg[1] = <<>> => ret.value = Len(arg[2])
     /\ ret.value = levenshtein(arg[2], arg[1])
     /\ toLowerCase(arg[1]) = toLowerCase(arg[2]) => ret.value = 0

\* the call levenshtein("Aab", "ba"): a case difference, a deletion and a
\* substitution or two, distance 2
C12_Witness ==
  /\ fn = "levenshtein"
  /\ ret.called
  /\ arg = << <<"A","a","b">>, <<"b","a">> >>
  /\ ret.value = 2

\* the tokens of a thread: the alphanumeric runs of sender + " " + subject
TokensOf(t) ==
  SplitTokens(toLowerCase(t.sender) \o <<" ">> \o toLowerCase(t.subject), 1, <<>>)

\* the result has a typosquatting finding of thread k for the token and brand b
HasTypoFinding(result, k, token, b) ==
  \E j \in 1..Len(result.findings) :
     /\ result.findings[j].index = k - 1
     /\ result.findings[j].indicators = <<"typosquatting", knownBrands[b].tag>>
     /\ result.findings[j].reason.a = token
     /\ result.findings[j].reason.b = knownBrands[b].name

\* C13: analyzeInboxLocally reports a typosquatting finding for a token and a
\* brand exactly when both have at least 4 characters and their distance is
\* above 0 and at most max(1, floor(brand length * 0.2)); a token equal to the
\* brand gets none.
C13_TypoFindingIffWithinBound ==
  (fn = "analyzeInboxLocally" /\ ret.called) =>
     \A k \in 1..Len(arg) :
        \A token \in Range(TokensOf(arg[k])) :
           \A b \in 1..Len(knownBrands) :
              /\ HasTypoFinding(ret.value, k, token, b)
                    <=> /\ Len(token) >= 4
                        /\ Len(knownBrands[b].name) >= 4
                        /\ levenshtein(token, knownBrands[b].name) > 0
                        /\ levenshtein(token, knownBrands[b].name)
                              <= Max(1, Len(knownBrands[b].name) \div 5)
              /\ token = knownBrands[b].name => ~HasTypoFinding(ret.value, k, token, b)

\* the analysis of a thread from "gogle" and one from a@paypal.com: "gogle" is
\* reported as similar to google (brand 2), "paypal" (brand 4) itself is not
\* reported
C13_Witness ==
  /\ fn = "analyzeInboxLocally"
  /\ ret.called
  /\ Len(arg) = 2
  /\ arg[1].sender = <<"g","o","g","l","e">>
  /\ arg[2].sender = <<"a","@","p","a","y","p","a","l",".","c","o","m">>
  /\ HasTypoFinding(ret.value, 1, <<"g","o","g","l","e">>, 2)
  /\ ~HasTypoFinding(ret.value, 2, <<"p","a","y","p","a","l">>, 4)
  /\ Len(ret.value.findings) = 1

\* the thread from support@rnicrosoft-security.com with the subject "verify"
LookAlikeThread ==
  Sender(<<"s","u","p","p","o","r","t","@","r","n","i","c","r","o","s","o","f","t","-",
           "s","e","c","u","r","i","t","y",".","c","o","m">>,
         <<"v","e","r","i","f","y">>)

\* C14 (as stated): the analysis of that thread alone has a finding tagged
\* typosquatting and similar-to-microsoft.
C14_LookAlikeIsFlagged ==
  (fn = "analyzeInboxLocally" /\ ret.called /\ arg = <<LookAlikeThread>>) =>
     \E j \in 1..Len(ret.value.findings) :
        /\ HasTag(ret.value.findings[j].indicators, "typosquatting")
        /\ HasTag(ret.value.findings[j].indicators, "similar-to-microsoft")

\* C14 (amended): the analysis of that thread alone has no finding and level
\* safe: "rnicrosoft" is two edits away from "microsoft", and the bound for a
\* brand of 9 letters is max(1, floor(9 * 0.2)) = 1.
C14_LookAlikeIsNotFlagged ==
  (fn = "analyzeInboxLocally" /\ ret.called /\ arg = <<LookAlikeThread>>) =>
     /\ ret.value.findings = <<>>
     /\ ret.value.level = "safe"
     /\ levenshtein(<<"r","n","i","c","r","o","s","o","f","t">>, knownBrands[1].name) = 2
     /\ Max(1, Len(knownBrands[1].name) \div 5) = 1

\* the analysis of that thread alone has returned
C14_Witness ==
  /\ fn = "analyzeInboxLocally"
  /\ ret.called
  /\ arg = <<LookAlikeThread>>
  /\ <<"r","n","i","c","r","o","s","o","f","t">> \in Range(TokensOf(arg[1]))
  /\ ret.value.level = "safe"

\* the threads of a list whose sender address has a domain that ends in .tk
TkThreads(list) ==
  {k \in 1..Len(list) :
     endsWith(SenderDomain(toLowerCase(list[k].sender)), <<".","t","k">>)}

\* C15: for a thread list with a thread whose sender domain ends in .tk,
\* analyzeInboxLocally returns level danger and a finding tagged
\* suspicious-tld for that thread.
C15_TkSenderIsDanger ==
  (fn = "analyzeInboxLocally" /\ ret.called) =>
     \A k \in TkThreads(arg) :
        /\ ret.value.level = "danger"
        /\ \E j \in 1..Len(ret.value.findings) :
              /\ ret.value.findings[j].index = k - 1
              /\ ret.value.findings[j].sender = arg[k].sender
              /\ HasTag(ret.value.findings[j].indicators, "suspicious-tld")

\* the analysis of a clean thread followed by one from n@EVIL.TK: the only
\* finding is the .tk one, and the level is danger
C15_Witness ==
  /\ fn = "analyzeInboxLocally"
  /\ ret.called
  /\ TkThreads(arg) = {2}
  /\ arg[2].sender[1] = "X"
  /\ Len(ret.value.findings) = 1
  /\ ret.value.findings[1].indicators = <<"suspicious-tld">>
  /\ ret.value.level = "danger"

\* C16: parseAIResponse never throws; it returns the value JSON.parse gave
\* for the matched block (or the whole text), and otherwise the object tagged
\* error: true with a message and with raw the input as it was given.
C16_ParseNeverThrows ==
  (fn = "parseAIResponse" /\ ret.called) =>
     /\ ~ret.value.threw
     /\ IF arg.kind # "other" /\ JSONParse(ParseInput(TextOf(arg))).ok
        THEN /\ ret.value.isObj = JSONParse(ParseInput(TextOf(arg))).isObj
             /\ ret.value.prim = JSONParse(ParseInput(TextOf(arg))).prim
             /\ ret.value.f = JSONParse(ParseInput(TextOf(arg))).f
        ELSE /\ ret.value.isObj
             /\ ret.value.f["error"] = Bool(TRUE)
             /\ Truthy(ret.value.f["message"])
             /\ ret.value.raw = IF arg.kind = "other" THEN arg.value ELSE TextOf(arg)

\* the call on a text with an object that has a trailing comma: the error
\* object came back, with the text as raw
C16_Witness ==
  /\ fn = "parseAIResponse"
  /\ ret.called
  /\ arg.kind = "text"
  /\ JsonMatch(arg.block) # <<>>
  /\ ~JSONParse(JsonMatch(arg.block)).ok
  /\ ~ret.value.threw
  /\ ret.value.f["error"] = Bool(TRUE)
  /\ ret.value.raw = arg.block

\* C17: for a text that is one well-formed object block with prose before
\* and after it, parseAIResponse returns the fields it returns for the block
\* alone.
C17_ProseDoesNotChangeFields ==
  (fn = "parseAIResponse" /\ ret.called /\ arg.kind = "framed") =>
     /\ ret.value.f = parseAIResponse(arg.block).f
     /\ ~Truthy(ret.value.f["error"])

(***************************************************************************)
(* Properties of the result built from a parsed remote response            *)
(***************************************************************************)

\* the scan ended with the result built from the parsed response
SentRemote == pc = "done" /\ outcome = <<"remote-parsed">>

\* C18: the result built from a parsed remote response has level danger or
\* warning only if the level field of the response (threat_level, else
\* threatLevel, else level) is exactly that string; without a level field or
\* with any other value it has level safe, and it is never neutral.
C18_RemoteLevelPassedOrSafe ==
  SentRemote =>
     /\ responses[1].level \in {"danger", "warning", "safe"}
     /\ responses[1].level = "danger"
           <=> DeclaredLevel(parseAIResponse(llmResp.text)) = Str(Danger)
     /\ responses[1].level = "warning"
           <=> DeclaredLevel(parseAIResponse(llmResp.text)) = Str(Warning)

\* a scan whose provider answered with a level the handler does not know
\* ("high"), sent as safe
C18_Witness ==
  /\ SentRemote
  /\ Truthy(Get(parseAIResponse(llmResp.text), "threat_level"))
  /\ DeclaredLevel(parseAIResponse(llmResp.text)) \notin {Str(Danger), Str(Warning), Str(Safe)}
  /\ responses[1].level = "safe"

\* the item array of a parsed response under the synonyms suspicious_items,
\* suspicious_links, items; empty if none is given
DeclaredItems(parsed) ==
  Or(Or(Or(Get(parsed, "suspicious_items"), Get(parsed, "suspicious_links")),
        Get(parsed, "items")), Arr(<<>>))

\* C19: the findings of the result built from a parsed remote response are
\* the item array under suspicious_items, suspicious_links or items, empty if
\* there is none; without an overall_assessment the detail is the count of
\* the findings when there are some and the fixed positive message when
\* there are none.
C19_FindingsAndDetailFromSynonyms ==
  SentRemote =>
     /\ responses[1].findings = DeclaredItems(parseAIResponse(llmResp.text)).a
     /\ ~Truthy(Get(parseAIResponse(llmResp.text), "overall_assessment")) =>
           IF Len(responses[1].findings) > 0
           THEN /\ responses[1].detail.msg = "Found suspicious item(s)"
                /\ responses[1].detail.n = Len(responses[1].findings)
           ELSE responses[1].detail.msg = "Checks out!"

\* C20: a result has a confidence field exactly when it was built from a
\* parsed remote response; the results of the local analysis and the neutral
\* results have none.
C20_ConfidenceIffRemote ==
  \A i \in 1..Len(responses) :
     responses[i].hasConfidence <=> outcome[i] = "remote-parsed"

(***************************************************************************)
(* Properties of the local analyzer's level                                *)
(***************************************************************************)

\* C24: analyzeInboxLocally never returns level warning: for every thread
\* list the level is danger when the result has at least one finding and safe
\* when it has none.
C24_LocalLevelNeverWarning ==
  (fn = "analyzeInboxLocally" /\ ret.called) =>
     /\ ret.value.level # "warning"
     /\ Len(ret.value.findings) > 0 => ret.value.level = "danger"
     /\ Len(ret.value.findings) = 0 => ret.value.level = "safe"

\* the analysis of the one thread "gogle": its only finding is tagged
\* typosquatting, with no suspicious top-level domain, and the level is danger
C24_Witness ==
  /\ fn = "analyzeInboxLocally"
  /\ ret.called
  /\ Len(arg) = 1
  /\ arg[1].sender = <<"g","o","g","l","e">>
  /\ Len(ret.value.findings) = 1
  /\ ~HasTag(ret.value.findings[1].indicators, "suspicious-tld")
  /\ ret.value.level = "danger"

(***************************************************************************)
(* Properties of the thread list passed on                                 *)
(***************************************************************************)

NullResp == [kind |-> "null", threads |-> <<>>]
UndefResp == [kind |-> "undefined", threads |-> <<>>]
LastError == [kind |-> "lastError", threads |-> <<>>]
BareResp == [kind |-> "bare", threads |-> <<>>]
ThreadsResp(list) == [kind |-> "object", threads |-> list]
Rejection == [kind |-> "rejected", threads |-> <<>>]

TabResponses ==
  {UndefResp, LastError, BareResp} \cup {ThreadsResp(list) : list \in InboxLists}

\* the resp argument of the callback
CallbackArg(resp) == IF resp.kind = "lastError" THEN UndefResp ELSE resp

\* a call of a helper up to the return of its promise: finished is false, the
\* timer is set and chrome.tabs.sendMessage has been called.  resolves are
\* the values handed to resolve or reject, in order (the first one settles the
\* promise), events the callbacks that ran, in order.
Helper(kind) ==
  [kind |-> kind, finished |-> FALSE, timer |-> "armed", callback |-> "pending",
   resolves |-> <<>>, events |-> <<>>, answer |-> NullResp]

\* chrome.tabs.sendMessage threw inside the executor.  sendMessageToTab
\* catches it, clears its timer and rejects; in sendMessageWithTimeout the
\* executor's exception rejects the promise and the timer stays set.
HelperThrew(kind) ==
  [Helper(kind) EXCEPT
     !.finished = (kind = "sendMessageToTab"),
     !.timer = IF kind = "sendMessageToTab" THEN "cleared" ELSE "armed",
     !.callback = "none",
     !.resolves = <<Rejection>>,
     !.events = <<"throw">>]

\* the timer callback
OnTimer(h) ==
  IF h.finished
  THEN [h EXCEPT !.timer = "fired", !.events = Append(@, "timer")]
  ELSE [h EXCEPT !.timer = "fired", !.events = Append(@, "timer"),
                 !.finished = TRUE,
                 !.resolves = Append(@, NullResp)]

\* what the response callback resolves with
Resolved(kind, resp) ==
  IF kind = "sendMessageToTab" /\ resp.kind = "lastError" THEN NullResp
  ELSE CallbackArg(resp)

\* OnCallback without the test of finished
OnCallbackNoGuard(h, resp) ==
  [h EXCEPT !.callback = "ran", !.events = Append(@, "callback"),
            !.finished = TRUE,
            !.timer = IF @ = "armed" THEN "cleared" ELSE @,
            !.resolves = Append(@, Resolved(h.kind, resp)),
            !.answer = resp]

\* the response callback
OnCallback(h, resp) ==
  IF h.finished
  THEN [h EXCEPT !.callback = "ran", !.events = Append(@, "callback")]
  ELSE [h EXCEPT !.callback = "ran", !.events = Append(@, "callback"),
                 !.finished = TRUE,
                 !.timer = "cleared",
                 !.resolves = Append(@, Resolved(h.kind, resp)),
                 !.answer = resp]

\* HasThreads that never sees threads
HasThreadsNever(resp) == FALSE

\* resp && resp.threads && resp.threads.length
HasThreads(resp) == resp.kind = "object" /\ Len(resp.threads) > 0

Rejected == [called |-> TRUE, rejected |-> TRUE]

\* the code that awaits the promise of helper i goes on with the value v it
\* settled with
Resume(i, v) ==
  IF fn = "sendMessageToTab"
  THEN /\ ret' = Returned(v)
       /\ UNCHANGED rit
  ELSE IF rit.pc = "first" /\ i = 1
  THEN IF HasThreads(v)
       THEN /\ ret' = Returned(v.threads)
            /\ rit' = [rit EXCEPT !.pc = "done"]
       ELSE /\ rit' = [rit EXCEPT !.pc = "inject"]
            /\ UNCHANGED ret
  ELSE IF rit.pc = "second" /\ i = 2
  THEN /\ ret' = Returned(IF HasThreads(v) THEN v.threads ELSE <<>>)
       /\ rit' = [rit EXCEPT !.pc = "done"]
  ELSE UNCHANGED <<rit, ret>>

\* helper i becomes next; the awaiting code resumes when this settled the
\* promise
HelperStep(i, next) ==
  /\ helpers' = [helpers EXCEPT ![i] = next]
  /\ IF helpers[i].resolves = <<>> /\ next.resolves # <<>>
     THEN Resume(i, next.resolves[1])
     ELSE UNCHANGED <<rit, ret>>

RequestIdle ==
  UNCHANGED <<pageContext, pc, threads, filtered, remoteCalls, llmResp, localRuns,
              responses, outcome, linkPc, anchors, linkResponses, fn, arg, scans,
              page, popup, opened, summaryVars>>

RequestInit ==
  /\ pageContext = "inbox"
  /\ ScanIdle
  /\ OthersIdle
  /\ ret = NotCalled
  /\ fn \in {"requestInboxThreads", "sendMessageToTab"}
  /\ arg \in {<<"tabId">>, <<"malformed">>}

\* requestInboxThreads(tabId) up to its first await
CallRequestInboxThreads ==
  /\ fn = "requestInboxThreads"
  /\ rit.pc = "idle"
  /\ requests' = requests + 1
  /\ IF arg = <<"malformed">>
     THEN /\ helpers' = <<HelperThrew("sendMessageWithTimeout")>>
          /\ rit' = [rit EXCEPT !.pc = "done"]
          /\ ret' = Rejected
     ELSE /\ helpers' = <<Helper("sendMessageWithTimeout")>>
          /\ rit' = [rit EXCEPT !.pc = "first"]
          /\ UNCHANGED ret
  /\ RequestIdle

\* sendMessageToTab(tabId, message, timeoutMs) up to the return of its promise
CallSendMessageToTab ==
  /\ fn = "sendMessageToTab"
  /\ helpers = <<>>
  /\ IF arg = <<"malformed">>
     THEN /\ helpers' = <<HelperThrew("sendMessageToTab")>>
          /\ ret' = Rejected
     ELSE /\ helpers' = <<Helper("sendMessageToTab")>>
          /\ UNCHANGED ret
  /\ UNCHANGED <<rit, requests>>
  /\ RequestIdle

\* the timer of helper i fires
TimerFires(i) ==
  /\ helpers[i].timer = "armed"
  /\ HelperStep(i, OnTimer(helpers[i]))
  /\ UNCHANGED requests
  /\ RequestIdle

\* the browser calls the response callback of helper i
CallbackRuns(i, resp) ==
  /\ helpers[i].callback = "pending"
  /\ HelperStep(i, OnCallback(helpers[i], resp))
  /\ UNCHANGED requests
  /\ RequestIdle

\* chrome.scripting.executeScript settles; a rejection is caught and the
\* function returns []
InjectSettles(ok) ==
  /\ rit.pc = "inject"
  /\ IF ok
     THEN /\ rit' = [rit EXCEPT !.pc = "delay"]
          /\ UNCHANGED ret
     ELSE /\ rit' = [rit EXCEPT !.pc = "done"]
          /\ ret' = Returned(<<>>)
  /\ UNCHANGED <<helpers, requests>>
  /\ RequestIdle

\* the 400 ms are over and the second request goes out
DelayElapsed ==
  /\ rit.pc = "delay"
  /\ rit' = [rit EXCEPT !.pc = "second", !.delayed = TRUE]
  /\ helpers' = Append(helpers, Helper("sendMessageWithTimeout"))
  /\ requests' = requests + 1
  /\ UNCHANGED ret
  /\ RequestIdle

RequestNext ==
  \/ CallRequestInboxThreads
  \/ CallSendMessageToTab
  \/ \E i \in 1..Len(helpers) : TimerFires(i)
  \/ \E i \in 1..Len(helpers), resp \in TabResponses : CallbackRuns(i, resp)
  \/ \E ok \in BOOLEAN : InjectSettles(ok)
  \/ DelayElapsed

RequestSpec == RequestInit /\ [][RequestNext]_vars

(***************************************************************************)
(* Properties of requestInboxThreads and of the helpers                    *)
(***************************************************************************)

\* a helper's promise settled with threads
Yielded(h) ==
  /\ h.resolves # <<>>
  /\ h.resolves[1].kind = "object"
  /\ h.resolves[1].threads # <<>>

\* C25: a call of requestInboxThreads sends at most two GET_INBOX_THREADS
\* requests; the second one is sent only after the first one settled without
\* threads and after the delay; the call returns the threads of the first
\* request that yielded some, and the empty list when none did.
C25_AtMostTwoRequests ==
  fn = "requestInboxThreads" =>
     /\ requests <= 2
     /\ requests = Len(helpers)
     /\ requests = 2 =>
           /\ helpers[1].resolves # <<>>
           /\ ~Yielded(helpers[1])
           /\ rit.delayed
     /\ (ret.called /\ arg = <<"tabId">>) =>
           ret.value =
             IF Yielded(helpers[1]) THEN helpers[1].resolves[1].threads
             ELSE IF Len(helpers) = 2 /\ Yielded(helpers[2])
             THEN helpers[2].resolves[1].threads
             ELSE <<>>

\* the first request timed out, the second one was answered with threads, and
\* the call returned them
C25_Witness ==
  /\ fn = "requestInboxThreads"
  /\ requests = 2
  /\ helpers[1].events[1] = "timer"
  /\ Yielded(helpers[2])
  /\ ret.called
  /\ ret.value = helpers[2].resolves[1].threads

\* C26: under every order of the timer and the response callback a helper
\* hands exactly one value to its promise: what the tab answered when the
\* callback runs first (null or undefined when nobody answered), null when
\* the timer fires first; a callback that runs after the timer changes
\* nothing, and the awaiting code sees that one value.  When
\* chrome.tabs.sendMessage throws, the promise is rejected.
C26_HelperSettlesOnce ==
  \A i \in 1..Len(helpers) :
     LET h == helpers[i]
     IN /\ h.events = <<>> => h.resolves = <<>>
        /\ (h.events # <<>> /\ h.events[1] = "callback") =>
              /\ Len(h.resolves) = 1
              /\ IF h.answer.kind = "lastError"
                 THEN h.resolves[1].kind \in {"null", "undefined"}
                 ELSE h.resolves[1] = h.answer
        /\ (h.events # <<>> /\ h.events[1] = "timer") => h.resolves = <<NullResp>>
        /\ (h.events # <<>> /\ h.events[1] = "throw") => h.resolves[1] = Rejection
        /\ (fn = "sendMessageToTab" /\ h.events # <<>>) =>
              /\ ret.called
              /\ h.events[1] # "throw" => ret.value = h.resolves[1]

\* the timer of sendMessageToTab fired, and the callback ran after it
C26_Witness ==
  /\ fn = "sendMessageToTab"
  /\ Len(helpers) = 1
  /\ helpers[1].events = <<"timer", "callback">>
  /\ helpers[1].resolves = <<NullResp>>
  /\ ret = Returned(NullResp)

(***************************************************************************)
(* Scans that run side by side: each call of the SCAN_INBOX_THREATS        *)
(* handler (background.js) keeps tabId, threads, filtered, llmResp and     *)
(* parsed in the locals of its own async function, and quickScanLinks      *)
(* (content.js) runs to its end in one task.                               *)
(***************************************************************************)
ConcLists == SeqsUpTo(ThreadPool, 1)
ConcAnchors == SeqsUpTo(AnchorPool, 1)

\* what sendPrompt settles with: an object that parses, text without an
\* object, a value that is not a string, a rejection
ConcResps == {
  [kind |-> "text",
   text |-> << Tok("{"), Member("threat_level", Str(Warning)), Tok(","),
               Member("suspicious_items", Arr(<<RemoteItem>>)), Tok("}") >>],
  [kind |-> "text", text |-> << Tok("p"), Tok("w") >>],
  [kind |-> "other", text |-> <<>>],
  [kind |-> "rejected", text |-> <<>>] }

\* OwnFiltered that reads the list of the first scan
FilteredOfFirst(all, i) == all[1].filtered

\* the filtered list the handler of scan i reads after its await of sendPrompt
OwnFiltered(all, i) == all[i].filtered

ConcIdle ==
  UNCHANGED <<pageContext, pc, threads, filtered, requests, remoteCalls, llmResp,
              localRuns, responses, outcome, linkPc, anchors, linkResponses,
              fn, arg, ret, helpers, rit, page, popup, opened, summaryVars>>

\* a SCAN_INBOX_THREATS message arrives and its handler awaits the threads
StartInboxScan(i) ==
  /\ scans[i].pc = "idle"
  /\ scans' = [scans EXCEPT ![i].kind = "inbox", ![i].pc = "threads"]
  /\ ConcIdle

\* requestInboxThreads returns to the handler of scan i, which answers
\* neutral or goes on to sendPrompt
ThreadsReturned(i, list) ==
  /\ scans[i].pc = "threads"
  /\ scans' = [scans EXCEPT ![i] =
       IF Len(list) = 0
       THEN [@ EXCEPT !.pc = "done",
               !.sent = <<Verdict("neutral", "No recent threads found to analyze",
                                  0, FALSE, <<>>)>>]
       ELSE [@ EXCEPT !.pc = "remote", !.threads = list,
               !.filtered = filterThreadsByDateAndLimit(list)]]
  /\ ConcIdle

\* sendPrompt settles for scan i and its handler runs to the end
ScanSettled(i, resp) ==
  /\ scans[i].pc = "remote"
  /\ scans' = [scans EXCEPT ![i].pc = "done", ![i].llmResp = resp,
                            ![i].sent = HandlerTail(resp, OwnFiltered(scans, i)).sent]
  /\ ConcIdle

\* a SCAN_LINKS message arrives in the content script
LinkScan(i, list) ==
  /\ scans[i].pc = "idle"
  /\ scans' = [scans EXCEPT ![i].kind = "links", ![i].pc = "done",
                            ![i].anchors = list,
                            ![i].sent = <<quickScanLinks(list)>>]
  /\ ConcIdle

ConcNext ==
  \/ \E i \in ScanIds : StartInboxScan(i)
  \/ \E i \in ScanIds, list \in ConcLists : ThreadsReturned(i, list)
  \/ \E i \in ScanIds, resp \in ConcResps : ScanSettled(i, resp)
  \/ \E i \in ScanIds, list \in ConcAnchors : LinkScan(i, list)

ConcSpec == Init /\ [][ConcNext]_vars

\* the results scan s sends when it runs alone on its items with its remote
\* outcome
Alone(s) ==
  IF s.kind = "links" THEN <<quickScanLinks(s.anchors)>>
  ELSE IF s.threads = <<>>
  THEN <<Verdict("neutral", "No recent threads found to analyze", 0, FALSE, <<>>)>>
  ELSE HandlerTail(s.llmResp, filterThreadsByDateAndLimit(s.threads)).sent

\* C21: under every interleaving of the scans, a scan that has ended sent
\* what it sends when it runs alone on the same items with the same remote
\* outcome.
C21_ScansDoNotInterfere ==
  \A i \in ScanIds : scans[i].pc = "done" => scans[i].sent = Alone(scans[i])

\* the second inbox scan got its threads and ended while the first one, on
\* other threads, was waiting for sendPrompt, and the two verdicts differ
C21_Witness ==
  /\ scans[1].kind = "inbox"
  /\ scans[1].pc = "remote"
  /\ scans[2].kind = "inbox"
  /\ scans[2].pc = "done"
  /\ scans[2].llmResp.kind = "rejected"
  /\ scans[1].filtered # scans[2].filtered
  /\ scans[2].sent # <<analyzeInboxLocally(scans[1].filtered)>>

(***************************************************************************)
(* The spam button of the popup: scanSpamBtn with pendingUnsubscribeLink   *)
(* (the popup script of part_003), and scanSpamBtn and spamBtn of          *)
(* src/popup.js; findUnsubscribeLink (content.js).                         *)
(*                                                                         *)
(* An anchor of the page: its href, whether its rel has "unsubscribe", and *)
(* its text.                                                               *)
(***************************************************************************)
Anchor(href, rel, text) == [href |-> href, rel |-> rel, text |-> text]

\* an unsubscribe path with a plain text, an opt-out link whose text says
\* Unsubscribe, a link marked by rel only, a preferences link, a plain link
PagePool == {
  Anchor(<<"h","t","t","p","s",":","/","/","a",".","i","o","/","u","n","s","u","b","s","c","r","i","b","e">>, FALSE, <<"h","e","r","e">>),
  Anchor(<<"h","t","t","p","s",":","/","/","a",".","i","o","/","o","p","t","o","u","t">>, FALSE, <<"U","n","s","u","b","s","c","r","i","b","e">>),
  Anchor(<<"h","t","t","p","s",":","/","/","b",".","i","o","/","x">>, TRUE, <<"x">>),
  Anchor(<<"h","t","t","p","s",":","/","/","a",".","i","o","/","p","r","e","f","e","r","e","n","c","e","s">>, FALSE, <<"S","e","t","t","i","n","g","s">>),
  Anchor(<<"h","t","t","p","s",":","/","/","a",".","i","o","/","h","o","m","e">>, FALSE, <<"H","o","m","e">>) }

MaxPage == 2
Pages == SeqsUpTo(PagePool, MaxPage)
MaxOpens == 2

NoLink == <<>>

\* the href of the first anchor of list that satisfies Test, or null
FirstHref(list, Test(_)) ==
  LET found == SelectSeq(list, Test)
  IN IF found = <<>> THEN NoLink ELSE found[1].href

RelUnsubscribe(a) == a.rel
TextUnsubscribe(a) == includes(toLowerCase(a.text), <<"u","n","s","u","b","s","c","r","i","b","e">>)
HrefUnsubscribe(a) ==
  \/ includes(toLowerCase(a.href), <<"/","u","n","s","u","b","s","c","r","i","b","e">>)
  \/ includes(toLowerCase(a.href), <<"u","n","s","u","b","s","c","r","i","b","e","=","t","r","u","e">>)
  \/ includes(toLowerCase(a.href), <<"l","i","s","t","-","u","n","s","u","b","s","c","r","i","b","e">>)

\* findUnsubscribeLink() on the anchors of the page
findUnsubscribeLink(list) ==
  IF FirstHref(list, RelUnsubscribe) # NoLink THEN FirstHref(list, RelUnsubscribe)
  ELSE IF FirstHref(list, TextUnsubscribe) # NoLink THEN FirstHref(list, TextUnsubscribe)
  ELSE FirstHref(list, HrefUnsubscribe)

\* /unsubscribe|optout|preferences/i.test(a.href)
HrefOptOut(a) ==
  \/ includes(toLowerCase(a.href), <<"u","n","s","u","b","s","c","r","i","b","e">>)
  \/ includes(toLowerCase(a.href), <<"o","p","t","o","u","t">>)
  \/ includes(toLowerCase(a.href), <<"p","r","e","f","e","r","e","n","c","e","s">>)

PopupQuiet ==
  UNCHANGED <<pageContext, pc, threads, filtered, requests, remoteCalls, llmResp,
              localRuns, responses, outcome, linkPc, anchors, linkResponses,
              fn, arg, ret, helpers, rit, scans, page, summaryVars>>

PopupInit ==
  /\ pageContext = "email"
  /\ ScanIdle
  /\ fn = "none"
  /\ arg = <<>>
  /\ ret = NotCalled
  /\ helpers = <<>>
  /\ rit = RitIdle
  /\ scans = [i \in ScanIds |-> IdleScan]
  /\ page \in Pages
  /\ popup \in {[PopupIdle EXCEPT !.script = s] : s \in {"part_003", "popup.js"}}
  /\ opened = <<>>
  /\ SummaryIdle

\* a click on scanSpamBtn (part_003): the second click opens the pending link
\* in a new tab, the first one asks the content script for a SCAN_SPAM
ScanSpamBtnClick ==
  /\ popup.script = "part_003"
  /\ popup.button = "enabled"
  /\ IF popup.pending # NoLink
     THEN /\ Len(opened) < MaxOpens
          /\ opened' = Append(opened, [url |-> popup.pending, by |-> "click"])
          /\ popup' = [popup EXCEPT !.pending = NoLink]
     ELSE /\ popup' = [popup EXCEPT !.button = "scanning"]
          /\ UNCHANGED opened
  /\ PopupQuiet

\* sendMessageToTab settles for the scan of part_003: with the answer of the
\* content script, or with null or a rejection
SpamScanSettles(answered) ==
  /\ popup.script = "part_003"
  /\ popup.button = "scanning"
  /\ LET link == IF answered THEN findUnsubscribeLink(page) ELSE NoLink
     IN popup' = IF link # NoLink
                 THEN [popup EXCEPT !.pending = link, !.button = "enabled"]
                 ELSE [popup EXCEPT !.button = "disabled"]
  /\ UNCHANGED opened
  /\ PopupQuiet

\* a click on scanSpamBtn (src/popup.js)
OldScanSpamBtnClick ==
  /\ popup.script = "popup.js"
  /\ popup.button = "enabled"
  /\ popup' = [popup EXCEPT !.button = "scanning"]
  /\ UNCHANGED opened
  /\ PopupQuiet

\* chrome.tabs.sendMessage settles for the scan of src/popup.js: the link is
\* copied to the clipboard and the button stays disabled
OldSpamScanSettles(answered) ==
  /\ popup.script = "popup.js"
  /\ popup.button = "scanning"
  /\ LET link == IF answered THEN findUnsubscribeLink(page) ELSE NoLink
     IN popup' = [popup EXCEPT !.button = "disabled",
                               !.clipboard = IF link # NoLink THEN link ELSE @]
  /\ UNCHANGED opened
  /\ PopupQuiet

\* a click on spamBtn (src/popup.js): the injected function lists the
\* unsubscribe links of the page in an alert and clicks the first one
SpamBtnClick ==
  /\ popup.script = "popup.js"
  /\ Len(opened) < MaxOpens
  /\ LET unsubLinks == SelectSeq(page, HrefOptOut)
     IN opened' = IF unsubLinks # <<>>
                  THEN Append(opened, [url |-> unsubLinks[1].href, by |-> "scan"])
                  ELSE opened
  /\ UNCHANGED popup
  /\ PopupQuiet

PopupNext ==
  \/ ScanSpamBtnClick
  \/ \E answered \in BOOLEAN : SpamScanSettles(answered)
  \/ OldScanSpamBtnClick
  \/ \E answered \in BOOLEAN : OldSpamScanSettles(answered)
  \/ SpamBtnClick

PopupSpec == PopupInit /\ [][PopupNext]_vars

(***************************************************************************)
(* Properties of the spam scan                                             *)
(***************************************************************************)

\* C23: in every sequence of clicks, an unsubscribe URL is opened only by a
\* click made when a finished scan has revealed that URL on the button; the
\* scan itself opens nothing.
C23_OpenedOnlyByLaterClick ==
  [][opened' # opened =>
       /\ popup.pending # NoLink
       /\ popup.button = "enabled"
       /\ opened' = Append(opened, [url |-> popup.pending, by |-> "click"])]_vars

(***************************************************************************)
(* Provider settings (ai-provider.js, the settings page in                 *)
(* prompt-templates.js) and the handlers that send a prompt:               *)
(* handleSummarization and streamOllamaSummary on a port,                  *)
(* handleDirectSummarization, handleSummarizeInboxRequest and the          *)
(* SCAN_INBOX_THREATS handler (background.js)                              *)
(***************************************************************************)
AI_PROVIDERS == {"ollama", "groq", "together", "openai", "anthropic"}

\* config.requiresApiKey
RequiresApiKey(provider) == provider # "ollama"

\* String.prototype.trim() on a string of letters and blanks
Trim(s) ==
  LET solid == {i \in 1..Len(s) : s[i] # " "}
  IN IF solid = {} THEN <<>>
     ELSE SubSeq(s, CHOOSE i \in solid : \A j \in solid : i <= j,
                    CHOOSE i \in solid : \A j \in solid : j <= i)

\* what the user can have typed in the API key field
KeyInputs == {<<>>, <<" ">>, <<"k">>}

\* getProviderSettings(): one read of the storage
getProviderSettings(store) ==
  [provider |-> IF store.aiProvider = "" THEN "ollama" ELSE store.aiProvider,
   apiKey |-> store.apiKey]

\* SaveAccepted that stores what it is given
SaveAcceptedAlways(provider, apiKey) == TRUE

\* saveSettings goes on to chrome.storage.sync.set
SaveAccepted(provider, apiKey) == ~(RequiresApiKey(provider) /\ apiKey = <<>>)

\* the messages of a port
Chunk(text) == [type |-> "CHUNK", text |-> text]
Done == [type |-> "DONE", text |-> <<>>]
Error == [type |-> "ERROR", text |-> <<>>]

\* formatSummaryOutput throws: key_points or action_items has a length but
\* no forEach
FormatThrows(parsed) ==
  \E k \in {"key_points", "action_items"} :
     /\ Get(parsed, k).t = "str"
     /\ Length(Get(parsed, k)) > 0

\* PostsOfParsed that goes on after the error message
PostsOfParsedNoReturn(parsed) ==
  IF ~parsed.isObj /\ parsed.prim.t \in {"null", "undef"} THEN <<Error>>
  ELSE IF Truthy(Get(parsed, "error"))
  THEN <<Error, Chunk(<<"summary">>), Done>>
  ELSE IF FormatThrows(parsed) THEN <<Error>>
  ELSE <<Chunk(<<"summary">>), Done>>

\* what handleSummarization posts for a parsed response of an API provider:
\* reading parsed.error of null throws, which the catch turns into an ERROR
PostsOfParsed(parsed) ==
  IF ~parsed.isObj /\ parsed.prim.t \in {"null", "undef"} THEN <<Error>>
  ELSE IF Truthy(Get(parsed, "error")) THEN <<Error>>
  ELSE IF FormatThrows(parsed) THEN <<Error>>
  ELSE <<Chunk(<<"summary">>), Done>>

\* what handleSummarization posts once sendPrompt has settled
ApiPosts(resp) ==
  IF resp.kind = "rejected" THEN <<Error>>
  ELSE IF resp.kind = "other" THEN PostsOfParsed(ErrorResult(<<>>))
  ELSE PostsOfParsed(parseAIResponse(resp.text))

\* what sendPrompt settles with for a summary: an object with a summary, an
\* object whose key_points is a string, prose, the text null, a value that is
\* not a string, a rejection
SumResps == {
  [kind |-> "text",
   text |-> << Tok("{"), Member("key_points", Arr(<<>>)), Tok(","),
               Member("action_items", Arr(<<>>)), Tok("}") >>],
  [kind |-> "text",
   text |-> << Tok("{"), Member("key_points", Str(<<"a">>)), Tok("}") >>],
  [kind |-> "text", text |-> << Tok("p"), Tok("w") >>],
  [kind |-> "text", text |-> << Value(Null) >>],
  [kind |-> "other", text |-> <<>>],
  [kind |-> "rejected", text |-> <<>>] }

\* The body of the Ollama response as characters.  A line {"response":"ab"}
\* is written "{", "a", "b", "}"; "{", "}" is an object whose response is
\* empty (the closing line of a stream); any other line is not JSON.
LinePool == {
  <<"{","a","}">>,
  <<"{","b","}">>,
  <<"{","}">>,
  <<"x">>,
  <<" ">> }

MaxLines == 2

\* the lines joined by newlines, with or without a newline after the last one
RECURSIVE Join(_, _)
Join(lines, terminated) ==
  IF lines = <<>> THEN <<>>
  ELSE IF Len(lines) = 1
  THEN lines[1] \o (IF terminated THEN <<"\n">> ELSE <<>>)
  ELSE lines[1] \o <<"\n">> \o Join(Tail(lines), terminated)

Streams ==
  {Join(lines, terminated) : lines \in SeqsUpTo(LinePool, MaxLines),
                             terminated \in BOOLEAN}

\* the positions of the newlines of text, in order
Newlines(text) ==
  SelectSeq(<<>> \o [i \in 1..Len(text) |-> i], LAMBDA i : text[i] = "\n")

\* the pieces between the newlines nl of text
Pieces(text, nl) ==
  <<>> \o [k \in 1..(Len(nl) + 1) |->
             SubSeq(text, IF k = 1 THEN 1 ELSE nl[k - 1] + 1,
                          IF k = Len(nl) + 1 THEN Len(text) ELSE nl[k] - 1)]

\* text.split("\n")
SplitLines(text) == Pieces(text, Newlines(text))

\* the response field of the trimmed line t after JSON.parse; <<>> when it is
\* empty or absent or the line does not parse
ResponseOf(t) ==
  IF Len(t) >= 2 /\ t[1] = "{" /\ t[Len(t)] = "}"
     /\ \A i \in 2..(Len(t) - 1) : t[i] \in {"a", "b"}
  THEN SubSeq(t, 2, Len(t) - 1)
  ELSE <<>>

LineResponse(line) == ResponseOf(Trim(line))

\* the CHUNK messages of the for loop over lines
ChunksOf(lines) ==
  LET texts == <<>> \o [k \in 1..Len(lines) |-> LineResponse(lines[k])]
      said == SelectSeq(texts, LAMBDA t : t # <<>>)
  IN <<>> \o [k \in 1..Len(said) |-> Chunk(said[k])]

\* one turn of the while loop with the pieces of buffer + value: the last
\* piece is kept in the buffer
LoopTurn(pieces) ==
  [buffer |-> pieces[Len(pieces)],
   posts |-> ChunksOf(SubSeq(pieces, 1, Len(pieces) - 1))]

MessageTypes ==
  {"SUMMARIZE_TEXT", "SUMMARIZE_EMAIL", "SUMMARIZE_INBOX_REQUEST", "SCAN_INBOX_THREATS"}

SummaryQuiet ==
  UNCHANGED <<pageContext, pc, threads, filtered, requests, remoteCalls, llmResp,
              localRuns, responses, outcome, linkPc, anchors, linkResponses,
              fn, arg, ret, helpers, rit, scans, page, popup, opened>>

\* a message arrives.  The two inbox handlers are taken up where they have
\* their threads and call sendPrompt.
Receive(type) ==
  /\ sum.pc = "idle"
  /\ sum' = [sum EXCEPT !.type = type,
                        !.pc = IF type \in {"SUMMARIZE_TEXT", "SUMMARIZE_EMAIL"}
                               THEN "check" ELSE "send"]
  /\ UNCHANGED <<stored, posted, prompts>>
  /\ SummaryQuiet

\* the handler after checkProviderReady returned ready or not
AfterCheck(ready, checked) ==
  IF ready
  THEN /\ sum' = [sum EXCEPT !.checked = checked,
                             !.pc = IF sum.type = "SUMMARIZE_TEXT"
                                    THEN "settings" ELSE "send"]
       /\ UNCHANGED posted
  ELSE /\ sum' = [sum EXCEPT !.checked = checked, !.pc = "done"]
       /\ posted' = IF sum.type = "SUMMARIZE_TEXT" THEN Append(posted, Error)
                    ELSE posted

\* checkProviderReady reads the settings
CheckReads ==
  /\ sum.pc = "check"
  /\ LET s == getProviderSettings(stored)
     IN IF RequiresApiKey(s.provider) /\ s.apiKey = <<>>
        THEN AfterCheck(FALSE, s.provider)
        ELSE IF s.provider = "ollama"
        THEN /\ sum' = [sum EXCEPT !.checked = s.provider, !.pc = "ping"]
             /\ UNCHANGED posted
        ELSE AfterCheck(TRUE, s.provider)
  /\ UNCHANGED <<stored, prompts>>
  /\ SummaryQuiet

\* the fetch of Ollama's test endpoint settles
PingSettles(ok) ==
  /\ sum.pc = "ping"
  /\ AfterCheck(ok, sum.checked)
  /\ UNCHANGED <<stored, prompts>>
  /\ SummaryQuiet

\* handleSummarization reads the settings; for Ollama, streamOllamaSummary
\* sends the prompt to Ollama's endpoint
SettingsRead ==
  /\ sum.pc = "settings"
  /\ LET s == getProviderSettings(stored)
     IN IF s.provider = "ollama"
        THEN /\ sum' = [sum EXCEPT !.provider = s.provider, !.pc = "fetch"]
             /\ prompts' = Append(prompts, [provider |-> "ollama", apiKey |-> s.apiKey])
        ELSE /\ sum' = [sum EXCEPT !.provider = s.provider, !.pc = "send"]
             /\ UNCHANGED prompts
  /\ UNCHANGED <<stored, posted>>
  /\ SummaryQuiet

\* sendPrompt reads the settings and sends the prompt
SendPromptReads ==
  /\ sum.pc = "send"
  /\ prompts' = Append(prompts, getProviderSettings(stored))
  /\ sum' = [sum EXCEPT !.pc = "await"]
  /\ UNCHANGED <<stored, posted>>
  /\ SummaryQuiet

\* sendPrompt settles
PromptSettles(resp) ==
  /\ sum.pc = "await"
  /\ sum' = [sum EXCEPT !.pc = "done"]
  /\ posted' = IF sum.type = "SUMMARIZE_TEXT" THEN posted \o ApiPosts(resp)
               ELSE posted
  /\ UNCHANGED <<stored, prompts>>
  /\ SummaryQuiet

\* the fetch of streamOllamaSummary settles: "ok" with a body, "status" with
\* a response that is not ok, "rejected"
FetchSettles(how, stream) ==
  /\ sum.pc = "fetch"
  /\ IF how = "ok"
     THEN /\ sum' = [sum EXCEPT !.pc = "stream", !.stream = stream, !.rest = stream]
          /\ UNCHANGED posted
     ELSE /\ sum' = [sum EXCEPT !.pc = "done"]
          /\ posted' = Append(posted, Error)
  /\ UNCHANGED <<stored, prompts>>
  /\ SummaryQuiet

\* reader.read() gives the next k characters
ReadValue(k) ==
  /\ sum.pc = "stream"
  /\ k \in 1..Len(sum.rest)
  /\ LET turn == LoopTurn(SplitLines(sum.buffer \o SubSeq(sum.rest, 1, k)))
     IN /\ sum' = [sum EXCEPT !.buffer = turn.buffer,
                              !.rest = SubSeq(sum.rest, k + 1, Len(sum.rest))]
        /\ posted' = posted \o turn.posts
  /\ UNCHANGED <<stored, prompts>>
  /\ SummaryQuiet

\* reader.read() gives done
ReadDone ==
  /\ sum.pc = "stream"
  /\ sum.rest = <<>>
  /\ sum' = [sum EXCEPT !.pc = "done"]
  /\ posted' = Append(posted, Done)
  /\ UNCHANGED <<stored, prompts>>
  /\ SummaryQuiet

\* reader.read() rejects
ReadFails ==
  /\ sum.pc = "stream"
  /\ sum' = [sum EXCEPT !.pc = "done"]
  /\ posted' = Append(posted, Error)
  /\ UNCHANGED <<stored, prompts>>
  /\ SummaryQuiet

\* the user saves the settings page
saveSettings(provider, input) ==
  /\ SaveAccepted(provider, Trim(input))
  /\ stored' = [aiProvider |-> provider, apiKey |-> Trim(input)]
  /\ UNCHANGED <<sum, posted, prompts>>
  /\ SummaryQuiet

SummaryNext ==
  \/ \E type \in MessageTypes : Receive(type)
  \/ CheckReads
  \/ \E ok \in BOOLEAN : PingSettles(ok)
  \/ SettingsRead
  \/ SendPromptReads
  \/ \E resp \in SumResps : PromptSettles(resp)
  \/ \E how \in {"ok", "status", "rejected"}, stream \in Streams : FetchSettles(how, stream)
  \/ \E k \in 1..Len(sum.rest) : ReadValue(k)
  \/ ReadDone
  \/ ReadFails
  \/ \E provider \in AI_PROVIDERS, input \in KeyInputs : saveSettings(provider, input)

SummarySpec == Init /\ [][SummaryNext]_vars

(***************************************************************************)
(* Properties of the summarization on a port and of the provider settings  *)
(***************************************************************************)

IsTerminal(m) == m.type \in {"DONE", "ERROR"}

\* C27: for a SUMMARIZE_TEXT request the messages posted on the port are
\* CHUNK messages followed by at most one terminal message (DONE or ERROR),
\* nothing is posted after the terminal message, and a handler that has ended
\* has posted exactly one.
C27_ChunksThenOneTerminal ==
  sum.type = "SUMMARIZE_TEXT" =>
     /\ \A k \in 1..(Len(posted) - 1) : posted[k].type = "CHUNK"
     /\ sum.pc = "done" => (posted # <<>> /\ IsTerminal(posted[Len(posted)]))
     /\ sum.pc # "done" => (\A k \in 1..Len(posted) : posted[k].type = "CHUNK")

\* the Ollama stream broke after a CHUNK had been posted: the one terminal
\* message is the ERROR that follows the CHUNK
C27_Witness ==
  /\ sum.type = "SUMMARIZE_TEXT"
  /\ sum.provider = "ollama"
  /\ sum.pc = "done"
  /\ sum.rest # <<>>
  /\ Len(posted) = 2
  /\ posted[1].type = "CHUNK"
  /\ posted[2] = Error

\* the concatenation of the texts of a sequence
RECURSIVE Concat(_)
Concat(texts) == IF texts = <<>> THEN <<>> ELSE Head(texts) \o Concat(Tail(texts))

\* C28: when an Ollama stream ends with DONE, the CHUNK texts posted before
\* it, put together, are the response fields of all the JSON lines of the
\* stream, in order, however the stream was cut into reads and whether or not
\* its last line ends with a newline.
C28_ChunksAreAllResponses ==
  (sum.type = "SUMMARIZE_TEXT" /\ sum.provider = "ollama" /\ sum.pc = "done"
     /\ posted # <<>> /\ posted[Len(posted)] = Done) =>
     LET lines == SplitLines(sum.stream)
     IN Concat([k \in 1..(Len(posted) - 1) |-> posted[k].text])
          = Concat([k \in 1..Len(lines) |-> LineResponse(lines[k])])

\* C29: in handleSummarization every prompt is sent to the provider whose
\* readiness was checked, whatever is saved in the settings meanwhile.
C29_SentToCheckedProvider ==
  sum.type = "SUMMARIZE_TEXT" =>
     \A k \in 1..Len(prompts) : prompts[k].provider = sum.checked

\* C30: on every message path, a prompt sent to a provider that requires an
\* API key is sent while the stored API key is not empty.
C30_NoPromptWithoutKey ==
  \A k \in 1..Len(prompts) :
     prompts[k].provider # "ollama" => prompts[k].apiKey # <<>>

\* the inbox threat scan, which does not call checkProviderReady, sent its
\* prompt to Groq with the stored key
C30_Witness ==
  /\ sum.type = "SCAN_INBOX_THREATS"
  /\ prompts = <<[provider |-> "groq", apiKey |-> <<"k">>]>>
  /\ stored.aiProvider = "groq"

====
